---- MODULE Spec2Model ----
(***************************************************************************)
(* A model of the parallel orchestration and state-isolation subsystem of  *)
(* the CAI command line: protocol repair of a conversation history         *)
(* (cli/error_handler.py), recursive model propagation over the handoff    *)
(* graph (cli/parallel_executor.py, cli/agent_runner.py,                   *)
(* cli/state_manager.py), the isolation setup and the parallel dispatch    *)
(* (cli/parallel_executor.py).                                             *)
(***************************************************************************)
EXTENDS Integers, Sequences, FiniteSets, TLC

VARIABLES
    history,        \* agent.model.message_history of the agent under repair
    lastOp,         \* the last operation applied to history
    repairRuns,     \* consecutive runs of _handle_pending_tool_calls
    handoffs,       \* agent.handoffs of every agent instance
    agents,         \* per instance: name and the state of agent.model
    visited,        \* the visited set of one propagation (agent names)
    stack,          \* the call stack of _update_agent_models_recursively
    visits,         \* per instance: how often the propagation updated it
    psteps,         \* the steps the propagation has taken
    pstatus,        \* "off", "idle", "running" or "done"
    configs,        \* PARALLEL_CONFIGS
    isolation,      \* PARALLEL_ISOLATION: the isolated histories and the mode flag
    setupInfo,      \* the last isolation setup: its inputs and the store before it
    isoOp,          \* the last operation on the isolation store
    rounds,         \* dispatch rounds begun so far
    instances,      \* PARALLEL_AGENT_INSTANCES: (agent name, number) -> instance
    tasks,          \* the run_agent_instance coroutines of the round
    dphase,         \* "off", "idle", "launched", "gathered", "interrupted",
                    \* "cancelling" or "cancelled"
    validResults,   \* valid_results of run_parallel_agents (config positions)
    dispatchReturn, \* what execute_parallel_if_configured gave its caller
    runSteps,       \* messages the executions have added so far
    obtained,       \* the instance every started execution was given
    tool_calls_seen,    \* _process_streamed_response: call ids of tool_called events
    tool_results_seen,  \* _process_streamed_response: call ids of tool_output events
    sphase,         \* the streamed run: "off", "idle", "streaming", "raised", "returned"
    sevent,         \* the last stream event the handler took
    sevents,        \* stream events taken so far
    advice,         \* two runs of one conversation turn that differ in the advice
    cli,            \* CLIState and the position of the interactive loop
    learn           \* EnhancedAgentRunner: one conversation run and the records handed over

repairVars == <<history, lastOp, repairRuns>>
propVars == <<handoffs, agents, visited, stack, visits, psteps, pstatus>>
isoVars == <<configs, isolation, setupInfo, isoOp, rounds>>
dispVars == <<instances, tasks, dphase, validResults, dispatchReturn, runSteps, obtained>>
streamVars == <<tool_calls_seen, tool_results_seen, sphase, sevent, sevents>>
adviceVars == <<advice>>
cliVars == <<cli, learn>>

vars == <<history, lastOp, repairRuns, handoffs, agents, visited, stack, visits, psteps,
          pstatus, configs, isolation, setupInfo, isoOp, rounds,
          instances, tasks, dphase, validResults, dispatchReturn, runSteps, obtained,
          tool_calls_seen, tool_results_seen, sphase, sevent, sevents, advice, cli, learn>>

(***************************************************************************)
(* Bounds                                                                  *)
(***************************************************************************)
MaxHistory == 3     \* messages appended to one history before a repair
MaxRepairs == 2     \* consecutive repairs of one history
MaxConfigs == 2     \* configurations in PARALLEL_CONFIGS
MaxRounds == 2      \* dispatch rounds over one isolation store
MaxRunSteps == 2    \* messages one execution appends to its history
MaxEdges == 2       \* handoff entries in one delegation graph

(***************************************************************************)
(* Messages                                                                *)
(***************************************************************************)
NoId == "none"                  \* tool_call.get("id") is None / missing
CallIds == {"c1", "c2"}
Interrupted == "Tool execution interrupted"

ToolCallLists ==
    {<<a>> : a \in CallIds \cup {NoId}} \cup {<<a, b>> : a, b \in CallIds}

UserMsg == [role |-> "user", content |-> "text", tool_calls |-> <<>>, tool_call_id |-> NoId]

AssistantMsg(calls) ==
    [role |-> "assistant", content |-> "text", tool_calls |-> calls, tool_call_id |-> NoId]

ToolMsg(id, content) ==
    [role |-> "tool", content |-> content, tool_calls |-> <<>>, tool_call_id |-> id]

\* the messages an execution appends to its history
Messages ==
    {UserMsg, AssistantMsg(<<>>)}
        \cup {AssistantMsg(c) : c \in ToolCallLists}
        \cup {ToolMsg(id, "output") : id \in CallIds}

Range(s) == {s[i] : i \in 1..Len(s)}

\* the ids introduced by the assistant messages of h
IntroducedIds(h) ==
    {id \in CallIds : \E i \in 1..Len(h) :
        h[i].role = "assistant" /\ id \in Range(h[i].tool_calls)}

ToolMessagesFor(h, id) ==
    {i \in 1..Len(h) : h[i].role = "tool" /\ h[i].tool_call_id = id}

(***************************************************************************)
(* model.add_to_message_history: the append of section 4.1. A tool message *)
(* needs a matching open call (invariant I1): an earlier assistant entry   *)
(* with its id that has no tool message yet; otherwise ProtocolViolation   *)
(* is raised and the history is left as it was.                            *)
(***************************************************************************)
HasOpenCall(h, id) ==
    /\ id # NoId
    /\ id \in IntroducedIds(h)
    /\ ToolMessagesFor(h, id) = {}

add_to_message_history(h, msg) ==
    IF msg.role = "tool" /\ ~HasOpenCall(h, msg.tool_call_id)
    THEN [history |-> h, raised |-> TRUE]
    ELSE [history |-> Append(h, msg), raised |-> FALSE]

(***************************************************************************)
(* cai.util.fix_message_list: the repair of section 4.1 as it is applied   *)
(* to a whole message list. Every call id without a tool message gets one  *)
(* placeholder, appended after the messages already there; nothing is      *)
(* reordered or removed.                                                   *)
(***************************************************************************)
RECURSIVE CloseIds(_, _)
CloseIds(h, ids) ==
    IF ids = <<>> THEN h
    ELSE IF Head(ids) # NoId /\ ToolMessagesFor(h, Head(ids)) = {}
         THEN CloseIds(Append(h, ToolMsg(Head(ids), "execution interrupted")), Tail(ids))
         ELSE CloseIds(h, Tail(ids))

RECURSIVE CallsFrom(_, _)
CallsFrom(h, i) ==
    IF i > Len(h) THEN <<>>
    ELSE (IF h[i].role = "assistant" THEN h[i].tool_calls ELSE <<>>) \o CallsFrom(h, i + 1)

fix_message_list(h) == CloseIds(h, CallsFrom(h, 1))

(***************************************************************************)
(* ErrorHandler._handle_pending_tool_calls                                 *)
(***************************************************************************)
\* has_result: a tool message with the id of the tool call, wherever it stands
has_result(h, call_id) ==
    \E i \in 1..Len(h) : h[i].role = "tool" /\ h[i].tool_call_id = call_id

\* the orphaned calls of one assistant message, in the order of its tool_calls
OrphansOfMessage(h, msg) ==
    IF msg.role = "assistant" /\ msg.tool_calls # <<>>
    THEN SelectSeq(msg.tool_calls, LAMBDA c : c # NoId /\ ~has_result(h, c))
    ELSE <<>>

RECURSIVE orphaned_tool_calls(_, _)
orphaned_tool_calls(h, i) ==
    IF i > Len(h) THEN <<>>
    ELSE OrphansOfMessage(h, h[i]) \o orphaned_tool_calls(h, i + 1)

\* the loop that adds one synthetic result per orphaned call; an exception of
\* add_to_message_history leaves the loop (and the handler) at once
RECURSIVE add_synthetic_results(_, _)
add_synthetic_results(h, orphans) ==
    IF orphans = <<>> THEN [history |-> h, raised |-> FALSE]
    ELSE LET r == add_to_message_history(h, ToolMsg(Head(orphans), Interrupted))
         IN  IF r.raised THEN r ELSE add_synthetic_results(r.history, Tail(orphans))

\* the history the handler leaves; "except Exception: pass" keeps what was
\* appended before the exception and skips fix_message_list
placeholders_first(h) ==
    LET orphans == orphaned_tool_calls(h, 1)
    IN  IF orphans = <<>> THEN h
        ELSE [i \in 1..Len(orphans) |-> ToolMsg(orphans[i], Interrupted)] \o h

handle_pending_tool_calls(h) ==
    LET orphans == orphaned_tool_calls(h, 1)
        r == add_synthetic_results(h, orphans)
    IN  IF orphans = <<>> THEN h
        ELSE IF r.raised THEN r.history
        ELSE fix_message_list(r.history)

(***************************************************************************)
(* The repair machine: an execution appends messages, is interrupted, and  *)
(* the handler runs (a second interrupt runs it again).                    *)
(***************************************************************************)
RepairInit ==
    /\ history = <<>>
    /\ lastOp = "init"
    /\ repairRuns = 0
    /\ handoffs = <<>>
    /\ agents = <<>>
    /\ visited = {}
    /\ stack = <<>>
    /\ visits = <<>>
    /\ psteps = 0
    /\ pstatus = "off"
    /\ configs = <<>>
    /\ isolation = <<>>
    /\ setupInfo = <<>>
    /\ isoOp = "off"
    /\ rounds = 0
    /\ instances = <<>>
    /\ tasks = <<>>
    /\ dphase = "off"
    /\ validResults = <<>>
    /\ dispatchReturn = [kind |-> "none", value |-> "none"]
    /\ runSteps = 0
    /\ obtained = {}
    /\ tool_calls_seen = {}
    /\ tool_results_seen = {}
    /\ sphase = "off"
    /\ sevent = [name |-> "none", id |-> NoId]
    /\ sevents = 0
    /\ cli = <<>>
    /\ learn = <<>>
    /\ advice = <<>>

AppendMessage ==
    /\ Len(history) < MaxHistory
    /\ \E msg \in Messages :
        LET r == add_to_message_history(history, msg)
        IN  /\ history' = r.history
            /\ lastOp' = IF r.raised THEN "ProtocolViolation" ELSE "append"
    /\ repairRuns' = 0
    /\ UNCHANGED <<propVars, isoVars, dispVars, streamVars, adviceVars, cliVars>>

HandlePendingToolCalls ==
    /\ repairRuns < MaxRepairs
    /\ history' = handle_pending_tool_calls(history)
    /\ lastOp' = "repair"
    /\ repairRuns' = repairRuns + 1
    /\ UNCHANGED <<propVars, isoVars, dispVars, streamVars, adviceVars, cliVars>>

RepairNext == AppendMessage \/ HandlePendingToolCalls

SpecRepair == RepairInit /\ [][RepairNext]_vars

(***************************************************************************)
(* C1. Protocol closure: in a history returned by the repair, every        *)
(* toolCallId introduced by an assistant message has exactly one tool      *)
(* message carrying it.                                                    *)
(***************************************************************************)
C1_ProtocolClosure ==
    lastOp = "repair" =>
        \A id \in IntroducedIds(history) : Cardinality(ToolMessagesFor(history, id)) = 1

(***************************************************************************)
(* C2. The repair is idempotent: a second run, right after a first one,    *)
(* leaves the history as the first run left it.                            *)
(***************************************************************************)
C2_RepairIdempotent ==
    [][(repairRuns >= 1 /\ repairRuns' = repairRuns + 1) => history' = history]_vars

(***************************************************************************)
(* C31. The repair only inserts placeholders: the history it leaves is the *)
(* history it found, every message unmodified and in place, followed by    *)
(* placeholder tool messages for calls that were orphaned in it; a history *)
(* without an orphaned call is left as it was.                             *)
(***************************************************************************)
\* the ids of h introduced by an assistant message that no tool message
\* with the id follows
OrphanedIds(h) ==
    {id \in CallIds : \E i \in 1..Len(h) :
        /\ h[i].role = "assistant"
        /\ id \in Range(h[i].tool_calls)
        /\ \A j \in (i + 1)..Len(h) : ~(h[j].role = "tool" /\ h[j].tool_call_id = id)}

Placeholders(ids) ==
    {ToolMsg(id, content) : id \in ids, content \in {Interrupted, "execution interrupted"}}

C31_RepairOnlyInserts ==
    [][lastOp' = "repair" =>
        /\ Len(history') >= Len(history)
        /\ SubSeq(history', 1, Len(history)) = history
        /\ \A k \in (Len(history) + 1)..Len(history') :
                history'[k] \in Placeholders(OrphanedIds(history))
        /\ OrphanedIds(history) = {} => history' = history]_vars

\* a repair has put its placeholder behind the two messages it found
C31_Witness ==
    /\ lastOp = "repair"
    /\ repairRuns = 1
    /\ history = <<UserMsg, AssistantMsg(<<"c1">>), ToolMsg("c1", Interrupted)>>

(***************************************************************************)
(* C32. A call counts as orphaned exactly when no tool message with its id *)
(* stands later than the assistant message that introduces it: the repair  *)
(* adds a placeholder for every such call, a tool message that stands only *)
(* before the assistant message notwithstanding, and for no other call.    *)
(***************************************************************************)
C32_OrphanedByPosition ==
    [][lastOp' = "repair" =>
        {history'[k].tool_call_id : k \in (Len(history) + 1)..Len(history')}
            = OrphanedIds(history)]_vars

(***************************************************************************)
(* The streamed run: AgentRunner._process_streamed_response and            *)
(* EnhancedAgentRunner._process_streamed_response_with_tracking. The run   *)
(* (Runner.run_streamed) adds assistant messages to the history of the     *)
(* agent and emits tool_called and tool_output events in any order; the    *)
(* handler adds one tool message per tool_output event.                    *)
(***************************************************************************)
MaxEvents == 3                  \* stream events of one streamed run
UnannouncedId == "c9"           \* a call id no assistant message carries
EventIds == CallIds \cup {UnannouncedId, NoId}
\* the tool_calls of the assistant messages of a streamed run
StreamCallLists == {<<"c1">>, <<"c2">>, <<"c1", "c2">>}

\* "if call_id: tool_calls_seen[call_id] = event.item"
on_tool_called(seen, call_id) ==
    IF call_id # NoId THEN seen \cup {call_id} ELSE seen

\* the tool_output branch: the tool message goes through add_to_message_history
append_unchecked(h, call_id) ==
    [history |-> Append(h, ToolMsg(call_id, "output")), raised |-> FALSE]

on_tool_output(h, call_id) ==
    add_to_message_history(h, ToolMsg(call_id, "output"))

\* "try: ... finally: aclose()": the handler has no except clause, so an
\* exception of add_to_message_history leaves it
swallow_exception(raised) == "streaming"

phase_after_output(raised) == IF raised THEN "raised" ELSE "streaming"

StreamInit ==
    /\ history = <<>>
    /\ lastOp = "init"
    /\ repairRuns = 0
    /\ handoffs = <<>>
    /\ agents = <<>>
    /\ visited = {}
    /\ stack = <<>>
    /\ visits = <<>>
    /\ psteps = 0
    /\ pstatus = "off"
    /\ configs = <<>>
    /\ isolation = <<>>
    /\ setupInfo = <<>>
    /\ isoOp = "off"
    /\ rounds = 0
    /\ instances = <<>>
    /\ tasks = <<>>
    /\ dphase = "off"
    /\ validResults = <<>>
    /\ dispatchReturn = [kind |-> "none", value |-> "none"]
    /\ runSteps = 0
    /\ obtained = {}
    /\ tool_calls_seen = {}
    /\ tool_results_seen = {}
    /\ sphase = "idle"
    /\ sevent = [name |-> "none", id |-> NoId]
    /\ sevents = 0
    /\ cli = <<>>
    /\ learn = <<>>
    /\ advice = <<>>

\* "stream_result = Runner.run_streamed(...)", with empty bookkeeping
StreamStart ==
    /\ sphase = "idle"
    /\ sphase' = "streaming"
    /\ tool_calls_seen' = {}
    /\ tool_results_seen' = {}
    /\ UNCHANGED <<sevent, sevents>>
    /\ UNCHANGED <<repairVars, propVars, isoVars, dispVars, adviceVars, cliVars>>

\* the run adds an assistant message to the history of the agent
StreamAssistant ==
    /\ sphase = "streaming"
    /\ Len(history) < MaxHistory
    /\ \E calls \in StreamCallLists :
        history' = add_to_message_history(history, AssistantMsg(calls)).history
    /\ lastOp' = "append"
    /\ UNCHANGED <<repairRuns, streamVars, adviceVars, cliVars>>
    /\ UNCHANGED <<propVars, isoVars, dispVars>>

\* a tool_called event
StreamToolCalled ==
    /\ sphase = "streaming"
    /\ sevents < MaxEvents
    /\ \E call_id \in EventIds :
        /\ tool_calls_seen' = on_tool_called(tool_calls_seen, call_id)
        /\ sevent' = [name |-> "tool_called", id |-> call_id]
    /\ sevents' = sevents + 1
    /\ UNCHANGED <<tool_results_seen, sphase>>
    /\ UNCHANGED <<repairVars, propVars, isoVars, dispVars, adviceVars, cliVars>>

\* a tool_output event
StreamToolOutput ==
    /\ sphase = "streaming"
    /\ sevents < MaxEvents
    /\ \E call_id \in EventIds :
        LET r == on_tool_output(history, call_id)
        IN  /\ tool_results_seen' = tool_results_seen \cup {call_id}
            /\ history' = r.history
            /\ lastOp' = IF r.raised THEN "ProtocolViolation" ELSE "append"
            /\ sphase' = phase_after_output(r.raised)
            /\ sevent' = [name |-> "tool_output", id |-> call_id]
    /\ sevents' = sevents + 1
    /\ UNCHANGED <<repairRuns, tool_calls_seen>>
    /\ UNCHANGED <<propVars, isoVars, dispVars, adviceVars, cliVars>>

\* the event iterator is exhausted: "return stream_result"
StreamEnd ==
    /\ sphase = "streaming"
    /\ sphase' = "returned"
    /\ UNCHANGED <<tool_calls_seen, tool_results_seen, sevent, sevents>>
    /\ UNCHANGED <<repairVars, propVars, isoVars, dispVars, adviceVars, cliVars>>

StreamNext ==
    \/ StreamStart
    \/ StreamAssistant
    \/ StreamToolCalled
    \/ StreamToolOutput
    \/ StreamEnd

SpecStream == StreamInit /\ [][StreamNext]_vars

(***************************************************************************)
(* C11. Appending a tool message whose id has no matching open call (no    *)
(* earlier assistant entry with the id, or the call already has its tool   *)
(* message) fails with ProtocolViolation, which leaves the stream handler  *)
(* for its caller, and the history stays as it was.                        *)
(***************************************************************************)
C11_AppendRejectsUnmatched ==
    [][\A id \in EventIds :
        (/\ sphase = "streaming"
         /\ sevents' = sevents + 1
         /\ sevent' = [name |-> "tool_output", id |-> id]
         /\ (id \notin IntroducedIds(history) \/ ToolMessagesFor(history, id) # {}))
        => (/\ history' = history
            /\ lastOp' = "ProtocolViolation"
            /\ sphase' = "raised")]_vars

\* a second tool_output for c1, whose call already has its tool message
C11_Witness ==
    /\ sphase = "raised"
    /\ lastOp = "ProtocolViolation"
    /\ sevent = [name |-> "tool_output", id |-> "c1"]
    /\ history = <<AssistantMsg(<<"c1">>), ToolMsg("c1", "output")>>

(***************************************************************************)
(* C12. Invariant I1 under streaming: whatever events the streamed run     *)
(* emits, the history holds at most one tool message per call id and every *)
(* tool message has an earlier assistant entry with its id.                *)
(***************************************************************************)
C12_StreamingI1 ==
    /\ \A id \in EventIds : Cardinality(ToolMessagesFor(history, id)) <= 1
    /\ \A i \in 1..Len(history) :
        history[i].role = "tool" =>
            \E j \in 1..(i - 1) :
                /\ history[j].role = "assistant"
                /\ history[i].tool_call_id \in Range(history[j].tool_calls)

\* the output of c2 arrived before that of c1 and with no tool_called event,
\* then an output for an unannounced id: the history holds the one tool
\* message of c2
C12_Witness ==
    /\ tool_results_seen = {"c2", UnannouncedId}
    /\ tool_calls_seen = {}
    /\ history = <<AssistantMsg(<<"c1", "c2">>), ToolMsg("c2", "output")>>

(***************************************************************************)
(* Agent instances and the delegation (handoff) graph                      *)
(***************************************************************************)
Inst == {"A", "B", "C"}         \* agent objects
Root == "A"                     \* the agent the propagation starts from
DefaultModel == "alias0"
NewModel == "modelX"
None == "None"

\* an agent as it stands after earlier turns: a model object bound to the
\* default model, with a cached client and filled converter buffers
Agent(name) ==
    [name |-> name, model |-> DefaultModel, agent_name |-> name,
     client |-> "cached", recent_tool_calls |-> {"c1"}, tool_outputs |-> {"c1"}]

\* an entry of agent.handoffs: an Agent itself, or a Handoff whose
\* on_invoke_handoff closure has the given cells. A cell holds an agent, an
\* object that is no agent ("other"), or nothing ("empty": reading its
\* cell_contents raises ValueError)
DirectRef(x) == [kind |-> "agent", cells |-> <<x>>]
Handoff(cells) == [kind |-> "handoff", cells |-> cells]

ClosureCells ==
    {<<x>> : x \in Inst}
        \cup {<<"B", "C">>, <<"other", "B">>, <<"empty", "C">>}

HandoffItems == {DirectRef(x) : x \in Inst} \cup {Handoff(c) : c \in ClosureCells}

\* the graphs: at most MaxEdges handoff entries, spread over the instances
NoEdge == [src |-> None, item |-> DirectRef(None)]
EdgeChoices == {[src |-> x, item |-> i] : x \in Inst, i \in HandoffItems} \cup {NoEdge}

RECURSIVE HandoffsOf(_, _, _)
HandoffsOf(edges, x, i) ==
    IF i > Len(edges) THEN <<>>
    ELSE (IF edges[i].src = x THEN <<edges[i].item>> ELSE <<>>) \o HandoffsOf(edges, x, i + 1)

TotalHandoffs ==
    Len(handoffs["A"]) + Len(handoffs["B"]) + Len(handoffs["C"])

(***************************************************************************)
(* _update_agent_models_recursively                                        *)
(***************************************************************************)
\* "if agent.name in visited: return"
never_visited(x, seen) == FALSE

already_visited(x, seen) == agents[x].name \in seen

\* "visited.add(agent.name)"
mark_nothing(x, seen) == seen

mark_visited(x, seen) == seen \cup {agents[x].name}

\* the update of the agent's model object: the new model, the agent name,
\* and the cached client and converter buffers cleared
keep_cached_state(a, new_model) ==
    [a EXCEPT !.model = new_model, !.agent_name = a.name]

update_model(a, new_model) ==
    [a EXCEPT !.model = new_model, !.agent_name = a.name, !.client = None,
              !.recent_tool_calls = {}, !.tool_outputs = {}]

\* the loop over the closure cells of a Handoff: the first cell that holds an
\* agent is the target ("break"); a ValueError of an empty cell is caught by
\* the try around the loop, which ends the handling of this Handoff
any_cell_target(cells) ==
    IF Range(cells) \cap Inst = {} THEN None
    ELSE CHOOSE x \in Range(cells) \cap Inst : TRUE

RECURSIVE closure_target(_)
closure_target(cells) ==
    IF cells = <<>> THEN None
    ELSE IF Head(cells) = "empty" THEN None
    ELSE IF Head(cells) \in Inst THEN Head(cells)
    ELSE closure_target(Tail(cells))

\* the agent one entry of agent.handoffs leads the recursion to
handoff_target(item) ==
    IF item.kind = "handoff" THEN closure_target(item.cells) ELSE item.cells[1]

\* the state after the call for agent x has run up to its handoffs loop
CallFor(x, stk) ==
    IF already_visited(x, visited)
    THEN /\ stack' = stk
         /\ UNCHANGED <<visited, agents, visits>>
    ELSE /\ visited' = mark_visited(x, visited)
         /\ agents' = [agents EXCEPT ![x] = update_model(agents[x], NewModel)]
         /\ visits' = [visits EXCEPT ![x] = @ + 1]
         /\ stack' = Append(stk, [agent |-> x, idx |-> 1])

PropInit ==
    /\ history = <<>>
    /\ lastOp = "init"
    /\ repairRuns = 0
    /\ configs = <<>>
    /\ isolation = <<>>
    /\ setupInfo = <<>>
    /\ isoOp = "off"
    /\ rounds = 0
    /\ instances = <<>>
    /\ tasks = <<>>
    /\ dphase = "off"
    /\ validResults = <<>>
    /\ dispatchReturn = [kind |-> "none", value |-> "none"]
    /\ runSteps = 0
    /\ obtained = {}
    /\ tool_calls_seen = {}
    /\ tool_results_seen = {}
    /\ sphase = "off"
    /\ sevent = [name |-> "none", id |-> NoId]
    /\ sevents = 0
    /\ cli = <<>>
    /\ learn = <<>>
    /\ advice = <<>>
    /\ \E edges \in [1..MaxEdges -> EdgeChoices] :
        handoffs = [x \in Inst |-> HandoffsOf(edges, x, 1)]
    /\ \E nameC \in {"b", "c"} :
        agents = [x \in Inst |->
                    Agent(IF x = "A" THEN "a" ELSE IF x = "B" THEN "b" ELSE nameC)]
    /\ visited = {}
    /\ stack = <<>>
    /\ visits = [x \in Inst |-> 0]
    /\ psteps = 0
    /\ pstatus = "idle"

\* the outer call, with a fresh visited set
StartPropagate ==
    /\ pstatus = "idle"
    /\ pstatus' = "running"
    /\ CallFor(Root, <<>>)
    /\ UNCHANGED <<handoffs, psteps>>
    /\ UNCHANGED <<repairVars, isoVars, dispVars, streamVars, adviceVars, cliVars>>

\* one iteration of "for handoff_item in agent.handoffs" in the innermost call
NextHandoff ==
    /\ pstatus = "running"
    /\ stack # <<>>
    /\ LET top == stack[Len(stack)]
           item == handoffs[top.agent][top.idx]
           stk == [stack EXCEPT ![Len(stack)].idx = @ + 1]
       IN  /\ top.idx <= Len(handoffs[top.agent])
           /\ IF handoff_target(item) = None
              THEN /\ stack' = stk
                   /\ UNCHANGED <<visited, agents, visits>>
              ELSE CallFor(handoff_target(item), stk)
    /\ psteps' = psteps + 1
    /\ UNCHANGED <<handoffs, pstatus>>
    /\ UNCHANGED <<repairVars, isoVars, dispVars, streamVars, adviceVars, cliVars>>

\* the innermost call has gone through its handoffs and returns
ReturnFromCall ==
    /\ pstatus = "running"
    /\ stack # <<>>
    /\ stack[Len(stack)].idx > Len(handoffs[stack[Len(stack)].agent])
    /\ stack' = SubSeq(stack, 1, Len(stack) - 1)
    /\ pstatus' = IF Len(stack) = 1 THEN "done" ELSE "running"
    /\ psteps' = psteps + 1
    /\ UNCHANGED <<handoffs, agents, visited, visits>>
    /\ UNCHANGED <<repairVars, isoVars, dispVars, streamVars, adviceVars, cliVars>>

PropagateNext == StartPropagate \/ NextHandoff \/ ReturnFromCall

SpecPropagate == PropInit /\ [][PropagateNext]_vars

(***************************************************************************)
(* Reachability in the delegation graph, as the specification counts it:   *)
(* an edge leads to a directly referenced agent and to every agent held by *)
(* a handle that can be resolved                                           *)
(***************************************************************************)
DelegationTargets(item) ==
    IF item.kind = "agent" THEN {item.cells[1]}
    ELSE IF "empty" \in Range(item.cells) THEN {}
    ELSE Range(item.cells) \cap Inst

Delegates(x) == UNION {DelegationTargets(handoffs[x][i]) : i \in 1..Len(handoffs[x])}

Reachable ==
    LET r1 == {Root} \cup Delegates(Root)
        r2 == r1 \cup UNION {Delegates(x) : x \in r1}
    IN  r2 \cup UNION {Delegates(x) : x \in r2}

(***************************************************************************)
(* C3. The propagation terminates on every delegation graph, cycles and    *)
(* self-loops included: it never takes more steps than one pass over the   *)
(* handoff entries and one return per instance, and while it runs it can   *)
(* always take its next step.                                              *)
(***************************************************************************)
C3_PropagateTerminates ==
    /\ psteps <= TotalHandoffs + Cardinality(Inst)
    /\ pstatus = "running" => ENABLED PropagateNext

\* a finished propagation over the cycle A -> B -> A, one edge a direct
\* reference and the other a wrapped handle
C3_Witness ==
    /\ pstatus = "done"
    /\ handoffs["A"] = <<Handoff(<<"B">>)>>
    /\ handoffs["B"] = <<DirectRef("A")>>
    /\ visits["A"] = 1 /\ visits["B"] = 1

(***************************************************************************)
(* C4. Coverage: after the propagation every instance reachable from the   *)
(* root through delegation edges is bound to the new model.                *)
(***************************************************************************)
C4_PropagationCoverage ==
    pstatus = "done" => \A x \in Reachable : agents[x].model = NewModel

(***************************************************************************)
(* C5. During one propagation each instance is updated at most once.       *)
(***************************************************************************)
C5_UpdatedAtMostOnce ==
    \A x \in Inst : visits[x] <= 1

\* a finished propagation in which two entries of the root lead to B and B
\* leads back to the root
C5_Witness ==
    /\ pstatus = "done"
    /\ Len(handoffs["A"]) = 2
    /\ \A i \in 1..2 : handoff_target(handoffs["A"][i]) = "B"
    /\ visits["B"] = 1

(***************************************************************************)
(* C20. Cache invalidation: every instance the propagation has set to the  *)
(* new model has its cached client cleared and its recent-tool-call and    *)
(* tool-output buffers empty; none holds the new model together with a     *)
(* cache of the previous binding.                                          *)
(***************************************************************************)
C20_CacheInvalidation ==
    \A x \in Inst :
        agents[x].model = NewModel =>
            /\ agents[x].client = None
            /\ agents[x].recent_tool_calls = {}
            /\ agents[x].tool_outputs = {}

\* a finished propagation that reached B through a wrapped handle and C
\* through a direct reference, all three with caches filled before
C20_Witness ==
    /\ pstatus = "done"
    /\ handoffs["A"] = <<Handoff(<<"other", "B">>), DirectRef("C")>>
    /\ \A x \in Inst : visits[x] = 1 /\ agents[x].model = NewModel /\ agents[x].client = None

\* a handle whose target cannot be resolved: reading a cell of its closure
\* raises
Unresolvable(item) == item.kind = "handoff" /\ "empty" \in Range(item.cells)

(***************************************************************************)
(* C21. Unresolvable delegation handles are skipped: on a graph in which   *)
(* a reachable instance holds a handle that cannot be resolved, the        *)
(* propagation can always take its next step until it is done, and then    *)
(* every instance reachable through the other edges is bound to the new    *)
(* model.                                                                  *)
(***************************************************************************)
C21_UnresolvableSkipped ==
    (\E x \in Reachable : \E i \in 1..Len(handoffs[x]) : Unresolvable(handoffs[x][i])) =>
        /\ pstatus = "running" => ENABLED PropagateNext
        /\ pstatus = "done" => \A x \in Reachable : agents[x].model = NewModel

(***************************************************************************)
(* Parallel configurations and the histories that move through the store   *)
(***************************************************************************)
PositionIds == <<"P1", "P2", "P3", "P4">>       \* f"P{idx}"

\* a ParallelConfig object; obj is the identity of the object, one per
\* position of PARALLEL_CONFIGS
Config(obj, id) ==
    [obj |-> obj, agent_name |-> "x", id |-> id, model |-> None, prompt |-> None]

\* config.id is None or an explicit id
ConfigIds == {None, "P1", "P2"}

ConfigLists ==
    UNION {{[i \in 1..n |-> Config(i, ids[i])] : ids \in [1..n -> ConfigIds]} :
            n \in 1..MaxConfigs}

M1 == UserMsg
M2 == AssistantMsg(<<>>)
WorkerMsg(by) == [role |-> "assistant", content |-> by, tool_calls |-> <<>>, tool_call_id |-> NoId]

\* agent.model.message_history of the main agent when a round begins
SourceHistories == {<<>>, <<M1>>, <<M1, M2>>}

\* instance_agent.model.message_history when an execution of a round ends
SavedHistories == {<<>>, <<M1, WorkerMsg("w1")>>, <<WorkerMsg("w2")>>}

\* CAI_PATTERN_DESCRIPTION
PatternDescriptions == {"", "Different Contexts"}

(***************************************************************************)
(* PARALLEL_ISOLATION, the Isolation Store of section 4.2                  *)
(***************************************************************************)
EmptyStore == [histories |-> [id \in {} |-> <<>>], parallel_mode |-> FALSE]

is_parallel_mode(iso) == iso.parallel_mode

\* get: the empty history when the id has no entry
get_isolated_history(iso, id) ==
    IF id \in DOMAIN iso.histories THEN iso.histories[id] ELSE <<>>

\* replace: last-writer-wins overwrite of one entry
replace_isolated_history(iso, id, h) ==
    [iso EXCEPT !.histories =
        [x \in DOMAIN iso.histories \cup {id} |-> IF x = id THEN h ELSE iso.histories[x]]]

\* clearAll: drops all entries and sets parallelModeActive = false
clear_all_histories(iso) ==
    [histories |-> [id \in {} |-> <<>>], parallel_mode |-> FALSE]

\* transferToParallel, broadcast: a clone of the source under each of the
\* first n ids, and parallelModeActive = true
RECURSIVE transfer_to_parallel(_, _, _, _)
transfer_to_parallel(iso, h, n, ids) ==
    IF n = 0 \/ ids = <<>> THEN [iso EXCEPT !.parallel_mode = TRUE]
    ELSE transfer_to_parallel(replace_isolated_history(iso, Head(ids), h), h, n - 1, Tail(ids))

(***************************************************************************)
(* ParallelExecutor._setup_parallel_isolation                              *)
(***************************************************************************)
\* "config.id or f'P{idx}'" for every configuration
agent_ids(cfgs) ==
    [i \in 1..Len(cfgs) |-> IF cfgs[i].id # None THEN cfgs[i].id ELSE PositionIds[i]]

\* _check_existing_histories: parallel mode is on and at least one of the
\* ids has a non-empty isolated history
check_all_histories(iso, ids) ==
    /\ is_parallel_mode(iso)
    /\ \A i \in 1..Len(ids) : get_isolated_history(iso, ids[i]) # <<>>

check_existing_histories(iso, ids) ==
    /\ is_parallel_mode(iso)
    /\ \E i \in 1..Len(ids) : get_isolated_history(iso, ids[i]) # <<>>

\* _should_transfer_to_all: not when the pattern description, in lower
\* case, contains "different contexts"
never_transfer_to_all(description) == FALSE

should_transfer_to_all(description) ==
    ~(description \in {"Different Contexts", "different contexts"})

\* "for agent_id in agent_ids[1:]: replace_isolated_history(agent_id, [])"
RECURSIVE init_empty_histories(_, _)
init_empty_histories(iso, ids) ==
    IF ids = <<>> THEN iso
    ELSE init_empty_histories(replace_isolated_history(iso, Head(ids), <<>>), Tail(ids))

\* the else branch of the policy choice: only the first agent gets the history
transfer_to_first(iso, current_history, ids) ==
    LET marked == [iso EXCEPT !.parallel_mode = TRUE]
    IN  IF current_history # <<>> /\ ids # <<>>
        THEN init_empty_histories(
                replace_isolated_history(clear_all_histories(marked), ids[1], current_history),
                Tail(ids))
        ELSE marked

setup_parallel_isolation(iso, cfgs, current_history, description) ==
    LET ids == agent_ids(cfgs)
    IN  IF ~check_existing_histories(iso, ids)
        THEN IF should_transfer_to_all(description)
             THEN transfer_to_parallel(iso, current_history, Len(cfgs), ids)
             ELSE transfer_to_first(iso, current_history, ids)
        ELSE [iso EXCEPT !.parallel_mode = TRUE]

\* _save_agent_history: the history of the instance replaces the entry
save_agent_history(iso, agent_id, message_history) ==
    replace_isolated_history(iso, agent_id, message_history)

(***************************************************************************)
(* The isolation machine: dispatch rounds over one store. A round sets up  *)
(* the isolation for the main agent's history; the executions of the round *)
(* then save their histories under their ids.                              *)
(***************************************************************************)
\* the policy the caller asks for, and whether the re-entrancy guard of the
\* store applies to the ids
PolicyOf(description) ==
    IF description = "Different Contexts" THEN "seed-first" ELSE "broadcast"

GuardApplies(iso, ids) ==
    /\ iso.parallel_mode
    /\ \E i \in 1..Len(ids) : get_isolated_history(iso, ids[i]) # <<>>

UniqueIds(ids) == \A i, j \in 1..Len(ids) : ids[i] = ids[j] => i = j

IsoInit ==
    /\ history = <<>>
    /\ lastOp = "init"
    /\ repairRuns = 0
    /\ handoffs = <<>>
    /\ agents = <<>>
    /\ visited = {}
    /\ stack = <<>>
    /\ visits = <<>>
    /\ psteps = 0
    /\ pstatus = "off"
    /\ configs \in ConfigLists
    /\ isolation = EmptyStore
    /\ setupInfo = [policy |-> "none", guard |-> FALSE, source |-> <<>>, before |-> EmptyStore]
    /\ isoOp = "init"
    /\ rounds = 0
    /\ instances = <<>>
    /\ tasks = <<>>
    /\ dphase = "off"
    /\ validResults = <<>>
    /\ dispatchReturn = [kind |-> "none", value |-> "none"]
    /\ runSteps = 0
    /\ obtained = {}
    /\ tool_calls_seen = {}
    /\ tool_results_seen = {}
    /\ sphase = "off"
    /\ sevent = [name |-> "none", id |-> NoId]
    /\ sevents = 0
    /\ cli = <<>>
    /\ learn = <<>>
    /\ advice = <<>>

SetupParallelIsolation ==
    /\ rounds < MaxRounds
    /\ \E source \in SourceHistories, description \in PatternDescriptions :
        /\ isolation' = setup_parallel_isolation(isolation, configs, source, description)
        /\ setupInfo' = [policy |-> PolicyOf(description),
                         guard |-> GuardApplies(isolation, agent_ids(configs)),
                         source |-> source,
                         before |-> isolation]
    /\ isoOp' = "setup"
    /\ rounds' = rounds + 1
    /\ UNCHANGED configs
    /\ UNCHANGED <<repairVars, propVars, dispVars, streamVars, adviceVars, cliVars>>

SaveAgentHistory ==
    /\ isoOp \in {"setup", "save"}
    /\ \E i \in 1..Len(configs), h \in SavedHistories :
        isolation' = save_agent_history(isolation, agent_ids(configs)[i], h)
    /\ isoOp' = "save"
    /\ UNCHANGED <<configs, setupInfo, rounds>>
    /\ UNCHANGED <<repairVars, propVars, dispVars, streamVars, adviceVars, cliVars>>

IsoNext == SetupParallelIsolation \/ SaveAgentHistory

SpecIsolation == IsoInit /\ [][IsoNext]_vars

(***************************************************************************)
(* The isolation setup over configurations with and without custom prompts *)
(***************************************************************************)
\* config.prompt of the configuration at a position
CustomPrompts == <<"prompt1", "prompt2", "prompt3", "prompt4">>

WithPrompts(cfgs) == [i \in 1..Len(cfgs) |-> [cfgs[i] EXCEPT !.prompt = CustomPrompts[i]]]

\* PARALLEL_CONFIGS: the workers share the input prompt, or each has its own
PromptConfigLists ==
    LET shared == {<<Config(1, None)>>, <<Config(1, "P1"), Config(2, "P2")>>,
                   <<Config(1, None), Config(2, None)>>}
    IN  shared \cup {WithPrompts(cfgs) : cfgs \in shared}

\* "agents_with_prompts = [(idx, config) for ... if config.prompt]"
agents_with_prompts(cfgs) == {i \in 1..Len(cfgs) : cfgs[i].prompt # None}

PolicyInit ==
    /\ history = <<>>
    /\ lastOp = "init"
    /\ repairRuns = 0
    /\ handoffs = <<>>
    /\ agents = <<>>
    /\ visited = {}
    /\ stack = <<>>
    /\ visits = <<>>
    /\ psteps = 0
    /\ pstatus = "off"
    /\ configs \in PromptConfigLists
    /\ isolation = EmptyStore
    /\ setupInfo = [policy |-> "none", guard |-> FALSE, source |-> <<>>, before |-> EmptyStore]
    /\ isoOp = "init"
    /\ rounds = 0
    /\ instances = <<>>
    /\ tasks = <<>>
    /\ dphase = "off"
    /\ validResults = <<>>
    /\ dispatchReturn = [kind |-> "none", value |-> "none"]
    /\ runSteps = 0
    /\ obtained = {}
    /\ tool_calls_seen = {}
    /\ tool_results_seen = {}
    /\ sphase = "off"
    /\ sevent = [name |-> "none", id |-> NoId]
    /\ sevents = 0
    /\ cli = <<>>
    /\ learn = <<>>
    /\ advice = <<>>

SpecPolicy == PolicyInit /\ [][IsoNext]_vars

(***************************************************************************)
(* C23. Policy selection: a setup that transfers the source history does   *)
(* so under the seed-first policy exactly when the configurations carry    *)
(* custom prompts, and under the broadcast policy when the workers share   *)
(* the one input prompt.                                                   *)
(***************************************************************************)
C23_PolicyFollowsPrompts ==
    (isoOp = "setup" /\ ~setupInfo.guard) =>
        (setupInfo.policy = "seed-first" <=> agents_with_prompts(configs) # {})

(***************************************************************************)
(* C24. After the isolation setup of a round with a non-empty              *)
(* configuration list the store is in parallel mode, whatever the policy   *)
(* and whether or not the re-entrancy guard applied.                       *)
(***************************************************************************)
C24_ParallelModeAfterSetup ==
    (isoOp = "setup" /\ configs # <<>>) => is_parallel_mode(isolation)

(***************************************************************************)
(* The registry of agent instances and the dispatch rounds                 *)
(* (ParallelExecutor.execute_parallel_if_configured)                       *)
(***************************************************************************)
AvailableAgents == {"x"}        \* get_available_agents()
WorkerTags == <<"w1", "w2", "w3", "w4">>

\* PARALLEL_CONFIGS of a dispatch: no explicit ids, every id explicit and its
\* own, one explicit id for all, and an explicit id that is the position id
\* of another configuration; the last configuration possibly names an agent
\* that does not exist
DispatchIds(n) ==
    {[i \in 1..n |-> None], [i \in 1..n |-> PositionIds[i]], [i \in 1..n |-> "P1"],
     [i \in 1..n |-> IF i = 1 THEN None ELSE "P1"]}

DispatchConfigLists ==
    UNION {{[i \in 1..n |-> [Config(i, ids[i]) EXCEPT !.agent_name = names[i]]] :
                ids \in DispatchIds(n),
                names \in {[i \in 1..n |-> "x"],
                           [i \in 1..n |-> IF i = n THEN "y" ELSE "x"]}} :
            n \in 1..MaxConfigs}

\* the messages an execution adds to the history of its instance: a plain
\* assistant message, an assistant message with the tool call c1, and the
\* tool message of c1 while the call is open
WorkerCall(by) ==
    [role |-> "assistant", content |-> by, tool_calls |-> <<"c1">>, tool_call_id |-> NoId]

RunMessages(h, by) ==
    {WorkerMsg(by), WorkerCall(by)}
        \cup (IF HasOpenCall(h, "c1") THEN {ToolMsg("c1", by)} ELSE {})

\* invariant I2: the history is closed when every call id of its most recent
\* assistant message has a tool message after it
LastAssistant(h) ==
    LET idx == {k \in 1..Len(h) : h[k].role = "assistant"}
    IN  IF idx = {} THEN 0 ELSE CHOOSE k \in idx : \A m \in idx : m <= k

is_closed(h) ==
    LET k == LastAssistant(h)
    IN  IF k = 0 THEN TRUE
        ELSE \A c \in 1..Len(h[k].tool_calls) :
                IF h[k].tool_calls[c] = NoId THEN TRUE
                ELSE \E j \in (k + 1)..Len(h) :
                        h[j].role = "tool" /\ h[j].tool_call_id = h[k].tool_calls[c]

\* the objects of the registry are told apart by a serial number
MaxUid(reg) ==
    IF DOMAIN reg = {} THEN 0
    ELSE CHOOSE n \in {reg[k].uid : k \in DOMAIN reg} :
            \A k \in DOMAIN reg : reg[k].uid <= n

\* get_agent_by_name raises DefinitionNotFound for a name without template
definition_found(name) == name \in AvailableAgents

\* get_agent_by_name(..., agent_id=config.id): a new instance, its history
\* seeded from the isolation store under its id. shared_with holds the ids
\* whose store entry is the very list object of the instance's history
new_instance(iso, cfg, uid) ==
    [agent_id |-> cfg.id,
     uid |-> uid,
     message_history |-> IF cfg.id = None THEN <<>> ELSE get_isolated_history(iso, cfg.id),
     shared_with |-> {}]

\* replace(id, history) keeps a copy of the list it is given: afterwards the
\* entry of id is the object of no live history
stored_as_alias(reg, key, id) ==
    [k \in DOMAIN reg |->
        [reg[k] EXCEPT !.shared_with = IF k = key THEN @ \cup {id} ELSE @ \ {id}]]

stored_as_snapshot(reg, key, id) ==
    [k \in DOMAIN reg |-> [reg[k] EXCEPT !.shared_with = @ \ {id}]]

\* the entries that the isolation setup has written anew are copies of the
\* source history
unlink_rewritten(reg, before, after) ==
    [k \in DOMAIN reg |->
        [reg[k] EXCEPT !.shared_with =
            {id \in @ : get_isolated_history(after, id) = get_isolated_history(before, id)}]]

\* an append to a list reaches every store entry that is the same object
append_to_shared(iso, shared, msg) ==
    [iso EXCEPT !.histories =
        [id \in DOMAIN @ |-> IF id \in shared THEN Append(@[id], msg) ELSE @[id]]]

register_instance(reg, key, instance) ==
    [k \in DOMAIN reg \cup {key} |-> IF k = key THEN instance ELSE reg[k]]

\* "if instance_key not in PARALLEL_AGENT_INSTANCES"
never_registered(reg, key) == FALSE

already_registered(reg, key) == key \in DOMAIN reg

\* "base_agent = get_available_agents().get(config.agent_name.lower())",
\* "if base_agent"
any_agent_known(name) == TRUE

known_agent(name) == name \in AvailableAgents

\* _create_parallel_instances: one instance per position that has none yet
RECURSIVE create_parallel_instances(_, _, _, _)
create_parallel_instances(reg, cfgs, iso, idx) ==
    IF idx > Len(cfgs) THEN reg
    ELSE LET key == <<cfgs[idx].agent_name, idx>>
         IN  IF ~already_registered(reg, key) /\ known_agent(cfgs[idx].agent_name)
             THEN create_parallel_instances(
                    register_instance(reg, key, new_instance(iso, cfgs[idx], MaxUid(reg) + 1)),
                    cfgs, iso, idx + 1)
             ELSE create_parallel_instances(reg, cfgs, iso, idx + 1)

\* "PARALLEL_CONFIGS.index(config) + 1": the first position that holds the
\* configuration
value_instance_number(cfgs, cfg) ==
    CHOOSE i \in 1..Len(cfgs) :
        /\ [cfgs[i] EXCEPT !.obj = 0] = [cfg EXCEPT !.obj = 0]
        /\ \A j \in 1..(i - 1) : [cfgs[j] EXCEPT !.obj = 0] # [cfg EXCEPT !.obj = 0]

instance_number(cfgs, cfg) ==
    CHOOSE i \in 1..Len(cfgs) : cfgs[i] = cfg /\ \A j \in 1..(i - 1) : cfgs[j] # cfg

\* "instance_key = (config.agent_name, instance_number)"
first_instance_key(cfgs, cfg) == <<cfg.agent_name, 1>>

instance_key(cfgs, cfg) == <<cfg.agent_name, instance_number(cfgs, cfg)>>

\* "agent_id = config.id or f'P{instance_number}'"
task_agent_id(cfgs, cfg) ==
    IF cfg.id # None THEN cfg.id ELSE PositionIds[instance_number(cfgs, cfg)]

\* "if not instance_agent": _create_fallback_instance, when the registry has
\* no instance under the key
with_fallback_instance(reg, cfgs, cfg, iso) ==
    IF instance_key(cfgs, cfg) \in DOMAIN reg THEN reg
    ELSE register_instance(reg, instance_key(cfgs, cfg),
                           new_instance(iso, cfg, MaxUid(reg) + 1))

\* _handle_execution_error: "Save history on error"
handle_execution_error(iso, has_instance, agent_id, message_history) ==
    IF has_instance /\ agent_id # None
    THEN replace_isolated_history(iso, agent_id, message_history)
    ELSE iso

\* _handle_cancellation: the history of the instance is written to the store
handle_cancellation(iso, has_instance, agent_id, message_history) ==
    IF has_instance /\ agent_id # None
    THEN replace_isolated_history(iso, agent_id, message_history)
    ELSE iso

\* _handle_parallel_interruption: "Force save all parallel agent histories"
RECURSIVE handle_parallel_interruption(_, _, _, _)
handle_parallel_interruption(iso, reg, cfgs, idx) ==
    IF idx > Len(cfgs) THEN iso
    ELSE LET key == <<cfgs[idx].agent_name, idx>>
             agent_id == IF cfgs[idx].id # None THEN cfgs[idx].id ELSE PositionIds[idx]
         IN  handle_parallel_interruption(
                IF key \in DOMAIN reg
                THEN replace_isolated_history(iso, agent_id, reg[key].message_history)
                ELSE iso,
                reg, cfgs, idx + 1)

\* the store entries that _handle_parallel_interruption has written
RECURSIVE interruption_snapshots(_, _, _)
interruption_snapshots(reg, cfgs, idx) ==
    IF idx > Len(cfgs) THEN reg
    ELSE LET key == <<cfgs[idx].agent_name, idx>>
             agent_id == IF cfgs[idx].id # None THEN cfgs[idx].id ELSE PositionIds[idx]
         IN  interruption_snapshots(
                IF key \in DOMAIN reg THEN stored_as_snapshot(reg, key, agent_id) ELSE reg,
                cfgs, idx + 1)

\* the filter of run_parallel_agents: the (config, result) pairs whose result
\* is not None, in the order of the configurations
valid_results(tsk) ==
    SelectSeq([i \in 1..Len(tsk) |-> i], LAMBDA i : tsk[i].state = "completed")

\* agent.model.message_history of the main agent when a dispatch begins
DispatchSources == {<<M1>>}

\* "if not PARALLEL_CONFIGS: return False"
some_configs(cfgs) == FALSE

no_configs(cfgs) == cfgs = <<>>

\* what execute_parallel_if_configured gives its caller
NoReturn == [kind |-> "none", value |-> "none"]
ReturnsTrue == [kind |-> "bool", value |-> "True"]
ReturnsFalse == [kind |-> "bool", value |-> "False"]
Raises(exception) == [kind |-> "exception", value |-> exception]

PendingTask ==
    [state |-> "pending", started |-> FALSE, key |-> <<"none", 0>>, agent_id |-> None,
     uid |-> 0, handed |-> <<>>, error |-> "none"]

Terminal == {"completed", "failed", "cancelled"}

DispatchInit ==
    /\ history = <<>>
    /\ lastOp = "init"
    /\ repairRuns = 0
    /\ handoffs = <<>>
    /\ agents = <<>>
    /\ visited = {}
    /\ stack = <<>>
    /\ visits = <<>>
    /\ psteps = 0
    /\ pstatus = "off"
    /\ configs \in DispatchConfigLists
    /\ isolation = EmptyStore
    /\ setupInfo = [policy |-> "none", guard |-> FALSE, source |-> <<>>, before |-> EmptyStore]
    /\ isoOp = "init"
    /\ rounds = 0
    /\ instances = [k \in {} |-> <<>>]
    /\ tasks = <<>>
    /\ dphase = "idle"
    /\ validResults = <<>>
    /\ dispatchReturn = NoReturn
    /\ runSteps = 0
    /\ obtained = {}
    /\ tool_calls_seen = {}
    /\ tool_results_seen = {}
    /\ sphase = "off"
    /\ sevent = [name |-> "none", id |-> NoId]
    /\ sevents = 0
    /\ cli = <<>>
    /\ learn = <<>>
    /\ advice = <<>>

\* execute_parallel_if_configured up to the gather, called for the first
\* time: the isolation setup, the instances, and one task per configuration
BeginDispatch ==
    /\ dphase = "idle"
    /\ ~no_configs(configs)
    /\ \E source \in DispatchSources, description \in PatternDescriptions :
        /\ isolation' = setup_parallel_isolation(isolation, configs, source, description)
        /\ setupInfo' = [policy |-> PolicyOf(description),
                         guard |-> GuardApplies(isolation, agent_ids(configs)),
                         source |-> source,
                         before |-> isolation]
    /\ instances' = create_parallel_instances(
                        unlink_rewritten(instances, isolation, isolation'),
                        configs, isolation', 1)
    /\ tasks' = [i \in 1..Len(configs) |-> PendingTask]
    /\ dphase' = "launched"
    /\ validResults' = <<>>
    /\ dispatchReturn' = NoReturn
    /\ isoOp' = "setup"
    /\ rounds' = rounds + 1
    /\ UNCHANGED <<configs, runSteps, obtained>>
    /\ UNCHANGED <<repairVars, propVars, streamVars, adviceVars, cliVars>>

\* run_agent_instance up to "await Runner.run". When the registry has no
\* instance and the fallback cannot create one, the exception is caught by
\* "except Exception": _handle_execution_error, and (config, None) returned
TaskStart(i) ==
    /\ dphase = "launched"
    /\ tasks[i].state = "pending"
    /\ LET cfg == configs[i]
           key == instance_key(configs, cfg)
           agent_id == task_agent_id(configs, cfg)
       IN  IF key \notin DOMAIN instances /\ ~definition_found(cfg.agent_name)
           THEN /\ tasks' = [tasks EXCEPT ![i] =
                                [PendingTask EXCEPT !.state = "failed", !.agent_id = agent_id,
                                                    !.error = "DefinitionNotFound"]]
                /\ isolation' = handle_execution_error(isolation, FALSE, agent_id, <<>>)
                /\ UNCHANGED <<instances, obtained>>
           ELSE LET reg == with_fallback_instance(instances, configs, cfg, isolation)
                IN  /\ instances' = reg
                    /\ tasks' = [tasks EXCEPT ![i] =
                                    [state |-> "running", started |-> TRUE, key |-> key,
                                     agent_id |-> agent_id, uid |-> reg[key].uid,
                                     handed |-> reg[key].message_history, error |-> "none"]]
                    /\ obtained' = obtained \cup
                                    {[name |-> cfg.agent_name, id |-> agent_id, uid |-> reg[key].uid]}
                    /\ UNCHANGED isolation
    /\ UNCHANGED <<configs, setupInfo, isoOp, rounds, dphase, validResults, dispatchReturn, runSteps>>
    /\ UNCHANGED <<repairVars, propVars, streamVars, adviceVars, cliVars>>

\* Runner.run adds a message of this execution to the instance's history
RunnerAppend(i) ==
    /\ dphase = "launched"
    /\ tasks[i].state = "running"
    /\ runSteps < MaxRunSteps
    /\ \E msg \in RunMessages(instances[tasks[i].key].message_history, WorkerTags[i]) :
        /\ instances' = [instances EXCEPT ![tasks[i].key].message_history = Append(@, msg)]
        /\ isolation' = append_to_shared(isolation, instances[tasks[i].key].shared_with, msg)
    /\ runSteps' = runSteps + 1
    /\ UNCHANGED <<configs, setupInfo, isoOp, rounds, tasks, dphase, validResults,
                   dispatchReturn, obtained>>
    /\ UNCHANGED <<repairVars, propVars, streamVars, adviceVars, cliVars>>

\* Runner.run returns, every tool call of the run answered: the history is
\* saved and (config, result) returned
RunnerReturn(i) ==
    /\ dphase = "launched"
    /\ tasks[i].state = "running"
    /\ is_closed(instances[tasks[i].key].message_history)
    /\ isolation' = save_agent_history(isolation, tasks[i].agent_id,
                                       instances[tasks[i].key].message_history)
    /\ instances' = stored_as_snapshot(instances, tasks[i].key, tasks[i].agent_id)
    /\ tasks' = [tasks EXCEPT ![i].state = "completed"]
    /\ isoOp' = "save"
    /\ UNCHANGED <<configs, setupInfo, rounds, dphase, validResults,
                   dispatchReturn, runSteps, obtained>>
    /\ UNCHANGED <<repairVars, propVars, streamVars, adviceVars, cliVars>>

\* Runner.run raises: _handle_execution_error, and (config, None) returned
RunnerRaise(i) ==
    /\ dphase = "launched"
    /\ tasks[i].state = "running"
    /\ isolation' = handle_execution_error(isolation, TRUE, tasks[i].agent_id,
                                           instances[tasks[i].key].message_history)
    /\ instances' = stored_as_snapshot(instances, tasks[i].key, tasks[i].agent_id)
    /\ tasks' = [tasks EXCEPT ![i].state = "failed", ![i].error = "ExecutionFailure"]
    /\ isoOp' = "save"
    /\ UNCHANGED <<configs, setupInfo, rounds, dphase, validResults,
                   dispatchReturn, runSteps, obtained>>
    /\ UNCHANGED <<repairVars, propVars, streamVars, adviceVars, cliVars>>

\* "await asyncio.gather(*tasks, return_exceptions=True)": every task has
\* returned, with a result or with (config, None)
first_done(tsk) == \E i \in 1..Len(tsk) : tsk[i].state \in {"completed", "failed"}

all_done(tsk) == \A i \in 1..Len(tsk) : tsk[i].state \in {"completed", "failed"}

\* asyncio.gather returns when every task has ended; run_parallel_agents
\* returns valid_results, _execute_parallel_agents drops them, and
\* execute_parallel_if_configured returns True
Gather ==
    /\ dphase = "launched"
    /\ all_done(tasks)
    /\ validResults' = valid_results(tasks)
    /\ dispatchReturn' = ReturnsTrue
    /\ dphase' = "gathered"
    /\ UNCHANGED <<configs, isolation, setupInfo, isoOp, rounds, instances, tasks,
                   runSteps, obtained>>
    /\ UNCHANGED <<repairVars, propVars, streamVars, adviceVars, cliVars>>

\* KeyboardInterrupt reaches "await run_parallel_agents()":
\* _handle_parallel_interruption, then the exception is raised again
Interrupt ==
    /\ dphase = "launched"
    /\ isolation' = handle_parallel_interruption(isolation, instances, configs, 1)
    /\ instances' = interruption_snapshots(instances, configs, 1)
    /\ dispatchReturn' = Raises("KeyboardInterrupt")
    /\ dphase' = "interrupted"
    /\ isoOp' = "save"
    /\ UNCHANGED <<configs, setupInfo, rounds, tasks, validResults,
                   runSteps, obtained>>
    /\ UNCHANGED <<repairVars, propVars, streamVars, adviceVars, cliVars>>

\* the dispatch is cancelled while it awaits the gather, which cancels the
\* tasks that have not ended. Every task has taken its first step by then:
\* the tasks are scheduled when the gather is called, before any later event
Cancel ==
    /\ dphase = "launched"
    /\ \A i \in 1..Len(tasks) : tasks[i].state # "pending"
    /\ dphase' = "cancelling"
    /\ UNCHANGED <<configs, isolation, setupInfo, isoOp, rounds, instances, tasks,
                   validResults, dispatchReturn, runSteps, obtained>>
    /\ UNCHANGED <<repairVars, propVars, streamVars, adviceVars, cliVars>>

\* the CancelledError is raised in a task at its "await Runner.run"
always_cancellable(state) == TRUE

cancellable(state) == state = "running"

\* asyncio.CancelledError in run_agent_instance: _handle_cancellation, raise
TaskCancelled(i) ==
    /\ dphase = "cancelling"
    /\ cancellable(tasks[i].state)
    /\ isolation' = handle_cancellation(
                        isolation, tasks[i].started, tasks[i].agent_id,
                        IF tasks[i].started THEN instances[tasks[i].key].message_history
                        ELSE <<>>)
    /\ instances' = stored_as_snapshot(instances, tasks[i].key, tasks[i].agent_id)
    /\ tasks' = [tasks EXCEPT ![i].state = "cancelled", ![i].error = "CancelledError"]
    /\ isoOp' = "save"
    /\ UNCHANGED <<configs, setupInfo, rounds, dphase, validResults,
                   dispatchReturn, runSteps, obtained>>
    /\ UNCHANGED <<repairVars, propVars, streamVars, adviceVars, cliVars>>

\* every task has ended: the cancellation leaves the dispatch
CancelledOut ==
    /\ dphase = "cancelling"
    /\ \A i \in 1..Len(tasks) : tasks[i].state \in Terminal
    /\ dispatchReturn' = Raises("CancelledError")
    /\ dphase' = "cancelled"
    /\ UNCHANGED <<configs, isolation, setupInfo, isoOp, rounds, instances, tasks,
                   validResults, runSteps, obtained>>
    /\ UNCHANGED <<repairVars, propVars, streamVars, adviceVars, cliVars>>

DispatchNext ==
    \/ BeginDispatch
    \/ \E i \in 1..Len(configs) : TaskStart(i)
    \/ \E i \in 1..Len(configs) : RunnerAppend(i)
    \/ \E i \in 1..Len(configs) : RunnerReturn(i)
    \/ \E i \in 1..Len(configs) : RunnerRaise(i)
    \/ Gather
    \/ Interrupt
    \/ Cancel
    \/ \E i \in 1..Len(configs) : TaskCancelled(i)
    \/ CancelledOut

SpecDispatch == DispatchInit /\ [][DispatchNext]_vars

\* the configurations of the repeated dispatches
RoundConfigLists ==
    {<<Config(1, None)>>,
     <<Config(1, "P1"), Config(2, "P2")>>,
     <<Config(1, "P1"), Config(2, "P1")>>}

\* the main loop calls execute_parallel_if_configured again after a dispatch
\* has returned; the registry and the store are those the earlier call left
NextDispatch ==
    /\ dphase = "gathered"
    /\ rounds < MaxRounds
    /\ ~no_configs(configs)
    /\ \E source \in DispatchSources, description \in PatternDescriptions :
        /\ isolation' = setup_parallel_isolation(isolation, configs, source, description)
        /\ setupInfo' = [policy |-> PolicyOf(description),
                         guard |-> GuardApplies(isolation, agent_ids(configs)),
                         source |-> source,
                         before |-> isolation]
    /\ instances' = create_parallel_instances(
                        unlink_rewritten(instances, isolation, isolation'),
                        configs, isolation', 1)
    /\ tasks' = [i \in 1..Len(configs) |-> PendingTask]
    /\ dphase' = "launched"
    /\ validResults' = <<>>
    /\ dispatchReturn' = NoReturn
    /\ isoOp' = "setup"
    /\ rounds' = rounds + 1
    /\ UNCHANGED <<configs, runSteps, obtained>>
    /\ UNCHANGED <<repairVars, propVars, streamVars, adviceVars, cliVars>>

RoundsInit ==
    /\ history = <<>>
    /\ lastOp = "init"
    /\ repairRuns = 0
    /\ handoffs = <<>>
    /\ agents = <<>>
    /\ visited = {}
    /\ stack = <<>>
    /\ visits = <<>>
    /\ psteps = 0
    /\ pstatus = "off"
    /\ configs \in RoundConfigLists
    /\ isolation = EmptyStore
    /\ setupInfo = [policy |-> "none", guard |-> FALSE, source |-> <<>>, before |-> EmptyStore]
    /\ isoOp = "init"
    /\ rounds = 0
    /\ instances = [k \in {} |-> <<>>]
    /\ tasks = <<>>
    /\ dphase = "idle"
    /\ validResults = <<>>
    /\ dispatchReturn = NoReturn
    /\ runSteps = 0
    /\ obtained = {}
    /\ tool_calls_seen = {}
    /\ tool_results_seen = {}
    /\ sphase = "off"
    /\ sevent = [name |-> "none", id |-> NoId]
    /\ sevents = 0
    /\ cli = <<>>
    /\ learn = <<>>
    /\ advice = <<>>

RoundsNext ==
    \/ DispatchNext
    \/ NextDispatch

SpecRounds == RoundsInit /\ [][RoundsNext]_vars

\* the messages of a history that the execution at position i produced
ProducedBy(h, i) == {k \in 1..Len(h) : h[k].content = WorkerTags[i]}

(***************************************************************************)
(* C6. Isolation non-interference: in a round whose configurations have    *)
(* distinct instance ids, in every interleaving of the executions, the     *)
(* store entry of one id holds no message that the execution of another    *)
(* configuration produced.                                                 *)
(***************************************************************************)
C6_NonInterference ==
    UniqueIds(agent_ids(configs)) =>
        \A i, j \in 1..Len(configs) :
            i # j => ProducedBy(get_isolated_history(isolation, agent_ids(configs)[i]), j) = {}

\* both executions appended messages and saved; each entry holds its own
C6_Witness ==
    /\ dphase = "gathered"
    /\ agent_ids(configs) = <<"P1", "P2">>
    /\ ProducedBy(get_isolated_history(isolation, "P1"), 1) # {}
    /\ ProducedBy(get_isolated_history(isolation, "P2"), 2) # {}

\* the results that execute_parallel_if_configured hands to its caller
ReturnedResults ==
    IF dispatchReturn.kind = "pairs" THEN Range(dispatchReturn.value) ELSE {}

(***************************************************************************)
(* C7. Fault isolation: in a round whose configurations have distinct      *)
(* instance ids, when an execution has raised ExecutionFailure, the        *)
(* dispatch returns to its caller the result of every execution that       *)
(* completed, and the store holds the history of the failed execution's    *)
(* instance under its id.                                                  *)
(***************************************************************************)
C7_FaultIsolation ==
    (dphase = "gathered" /\ UniqueIds(agent_ids(configs))) =>
        \A i \in 1..Len(configs) :
            tasks[i].error = "ExecutionFailure" =>
                /\ \A j \in 1..Len(configs) :
                        tasks[j].state = "completed" => j \in ReturnedResults
                /\ get_isolated_history(isolation, agent_ids(configs)[i])
                        = instances[tasks[i].key].message_history

(***************************************************************************)
(* C13. I2 at every call boundary: the history that an execution hands to  *)
(* Runner.run, the model completion call, is closed: every call id of its  *)
(* most recent assistant message has a tool message.                       *)
(***************************************************************************)
C13_ClosedAtCallBoundary ==
    \A i \in 1..Len(tasks) : tasks[i].started => is_closed(tasks[i].handed)

\* the history of the store has no orphaned tool call
NoOrphanedCall(h) == \A id \in CallIds : ~HasOpenCall(h, id)

(***************************************************************************)
(* C14. Repaired persistence at every terminal state: in a round whose     *)
(* configurations have distinct instance ids, once an execution has        *)
(* completed, failed or been cancelled, the history stored under its       *)
(* instance id has no orphaned tool call.                                  *)
(***************************************************************************)
C14_RepairedPersistence ==
    UniqueIds(agent_ids(configs)) =>
        \A i \in 1..Len(tasks) :
            (tasks[i].started /\ tasks[i].state \in Terminal) =>
                NoOrphanedCall(get_isolated_history(isolation, tasks[i].agent_id))

(***************************************************************************)
(* C15. Cancellation of a whole dispatch: when the dispatch has left with  *)
(* the abort (KeyboardInterrupt or CancelledError), in a round whose       *)
(* configurations have distinct instance ids, every execution that had     *)
(* begun is in a terminal state, and the store holds under its id its      *)
(* current history, with no orphaned tool call.                            *)
(***************************************************************************)
C15_CancellationPersists ==
    (dispatchReturn.kind = "exception" /\ UniqueIds(agent_ids(configs))) =>
        \A i \in 1..Len(tasks) :
            tasks[i].started =>
                LET current == instances[tasks[i].key].message_history
                    stored == get_isolated_history(isolation, tasks[i].agent_id)
                IN  /\ tasks[i].state \in Terminal
                    /\ Len(stored) >= Len(current)
                    /\ SubSeq(stored, 1, Len(current)) = current
                    /\ NoOrphanedCall(stored)

\* what execute_parallel_if_configured lets its caller know about failures
FailureCountSeen ==
    IF dispatchReturn.kind = "pairs"
    THEN Len(configs) - Cardinality(ReturnedResults)
    ELSE 0

FailuresSeen ==
    IF dispatchReturn.kind = "pairs"
    THEN (1..Len(configs)) \ ReturnedResults
    ELSE {}

(***************************************************************************)
(* C16. Failure accounting: when a dispatch has returned, its caller has   *)
(* the (config, result) pair of every execution that completed, and when   *)
(* some execution failed the failure count the caller sees is not zero.    *)
(***************************************************************************)
C16_FailureAccounting ==
    dphase = "gathered" =>
        /\ ReturnedResults = {i \in 1..Len(tasks) : tasks[i].state = "completed"}
        /\ (\E i \in 1..Len(tasks) : tasks[i].state = "failed") => FailureCountSeen > 0

(***************************************************************************)
(* C17. Failures are values: a worker that failed, in its setup or in its  *)
(* execution, does not make the dispatch leave with an exception, and the  *)
(* dispatch reports that worker to its caller as a failure.                *)
(***************************************************************************)
C17_FailuresAreValues ==
    \A i \in 1..Len(tasks) :
        tasks[i].state = "failed" =>
            /\ dispatchReturn.kind = "exception" => dphase \in {"interrupted", "cancelled"}
            /\ dphase = "gathered" => i \in FailuresSeen

ClearConfigs ==
    /\ dphase \in {"idle", "gathered"}
    /\ configs # <<>>
    /\ configs' = <<>>
    /\ UNCHANGED <<isolation, setupInfo, isoOp, rounds>>
    /\ UNCHANGED <<repairVars, propVars, dispVars, streamVars, adviceVars, cliVars>>

\* execute_parallel_if_configured without configurations: "return False",
\* and the main loop goes on to the conversation of the single agent
DispatchNothing ==
    /\ dphase \in {"idle", "gathered"}
    /\ no_configs(configs)
    /\ dispatchReturn' = ReturnsFalse
    /\ dphase' = "skipped"
    /\ UNCHANGED <<instances, tasks, validResults, runSteps, obtained>>
    /\ UNCHANGED <<isoVars, repairVars, propVars, streamVars, adviceVars, cliVars>>

IdleInit ==
    /\ history = <<>>
    /\ lastOp = "init"
    /\ repairRuns = 0
    /\ handoffs = <<>>
    /\ agents = <<>>
    /\ visited = {}
    /\ stack = <<>>
    /\ visits = <<>>
    /\ psteps = 0
    /\ pstatus = "off"
    /\ configs \in RoundConfigLists
    /\ isolation = EmptyStore
    /\ setupInfo = [policy |-> "none", guard |-> FALSE, source |-> <<>>, before |-> EmptyStore]
    /\ isoOp = "init"
    /\ rounds = 0
    /\ instances = [k \in {} |-> <<>>]
    /\ tasks = <<>>
    /\ dphase = "idle"
    /\ validResults = <<>>
    /\ dispatchReturn = NoReturn
    /\ runSteps = 0
    /\ obtained = {}
    /\ tool_calls_seen = {}
    /\ tool_results_seen = {}
    /\ sphase = "off"
    /\ sevent = [name |-> "none", id |-> NoId]
    /\ sevents = 0
    /\ cli = <<>>
    /\ learn = <<>>
    /\ advice = <<>>

IdleNext ==
    \/ RoundsNext
    \/ ClearConfigs
    \/ DispatchNothing

SpecIdle == IdleInit /\ [][IdleNext]_vars

(***************************************************************************)
(* C25. A dispatch with an empty configuration list is a no-op: the step   *)
(* starts no execution and leaves the isolation store, with its parallel   *)
(* mode flag, and the registry of instances as they were; the caller is    *)
(* told that nothing was dispatched.                                       *)
(***************************************************************************)
C25_EmptyDispatchNoOp ==
    [][(/\ configs = <<>>
        /\ (rounds' # rounds \/ dispatchReturn' # dispatchReturn \/ dphase' # dphase))
        => (/\ isolation' = isolation
            /\ instances' = instances
            /\ tasks' = tasks
            /\ runSteps' = runSteps
            /\ dispatchReturn' = ReturnsFalse)]_vars

\* the configurations were removed after a dispatch that left an entry in the
\* store and an instance in the registry; the next dispatch did nothing
C25_Witness ==
    /\ dphase = "skipped"
    /\ configs = <<>>
    /\ dispatchReturn = ReturnsFalse
    /\ rounds = 1
    /\ is_parallel_mode(isolation)
    /\ ProducedBy(get_isolated_history(isolation, "P1"), 1) # {}
    /\ DOMAIN instances = {<<"x", 1>>}

(***************************************************************************)
(* The advisory collaborators: the learning hook of the enhanced runner    *)
(* and the prediction of the ML runner. Two runs of one conversation turn, *)
(* with the same agent, history and input, side by side; they differ only  *)
(* in what the collaborator returns.                                       *)
(***************************************************************************)
Runs == {1, 2}
NoAdvice == "none"
AdviceReturns == {NoAdvice, "adviceA", "adviceB"}
AdvicePaths == {"enhanced", "ml"}

\* apply_learning_to_agent: without insights nothing; else the agent's
\* instructions are extended by the enhancement prompt
apply_learning_to_agent(instructions, returned) ==
    IF returned = NoAdvice THEN instructions ELSE Append(instructions, returned)

\* what the hook prints
learning_output(returned) ==
    IF returned = NoAdvice THEN <<>> ELSE <<"Applied learned patterns to agent">>

\* run_agent_with_ml, step 1: the prediction is printed
ml_output(returned) ==
    IF returned = NoAdvice THEN <<>> ELSE <<returned>>

\* _build_conversation_context: the history of the agent, repaired, and the
\* user input as the last message
build_conversation_context(h) == Append(fix_message_list(h), UserMsg)

\* run_agent_with_ml: "history_context.extend(agent.model.message_history)",
\* "history_context.append({role: user, ...})"
ml_history_context(h) == Append(h, UserMsg)

AdviceInit ==
    /\ history = <<>>
    /\ lastOp = "init"
    /\ repairRuns = 0
    /\ handoffs = <<>>
    /\ agents = <<>>
    /\ visited = {}
    /\ stack = <<>>
    /\ visits = <<>>
    /\ psteps = 0
    /\ pstatus = "off"
    /\ configs = <<>>
    /\ isolation = EmptyStore
    /\ setupInfo = [policy |-> "none", guard |-> FALSE, source |-> <<>>, before |-> EmptyStore]
    /\ isoOp = "off"
    /\ rounds = 0
    /\ instances = <<>>
    /\ tasks = <<>>
    /\ dphase = "off"
    /\ validResults = <<>>
    /\ dispatchReturn = [kind |-> "none", value |-> "none"]
    /\ runSteps = 0
    /\ obtained = {}
    /\ tool_calls_seen = {}
    /\ tool_results_seen = {}
    /\ sphase = "off"
    /\ sevent = [name |-> "none", id |-> NoId]
    /\ sevents = 0
    /\ cli = <<>>
    /\ learn = <<>>
    /\ \E path \in AdvicePaths, h \in SourceHistories :
        \E returned \in [Runs -> AdviceReturns] :
            advice = [r \in Runs |->
                        [path |-> path, returned |-> returned[r], message_history |-> h,
                         instructions |-> <<"base">>, displayed |-> <<>>,
                         handed |-> <<>>, phase |-> "start"]]

\* EnhancedAgentRunner.run_agent_conversation up to the run:
\* learning_hook_before_agent_run
LearningHookBefore(r) ==
    /\ advice[r].path = "enhanced"
    /\ advice[r].phase = "start"
    /\ advice' = [advice EXCEPT
            ![r].instructions = apply_learning_to_agent(@, advice[r].returned),
            ![r].displayed = learning_output(advice[r].returned),
            ![r].phase = "hooked"]
    /\ UNCHANGED <<repairVars, propVars, isoVars, dispVars, streamVars, cliVars>>

\* RealMLAgentRunner.run_agent_with_ml up to the run: ml_hook_before_agent_run
MLHookBefore(r) ==
    /\ advice[r].path = "ml"
    /\ advice[r].phase = "start"
    /\ advice' = [advice EXCEPT
            ![r].displayed = ml_output(advice[r].returned),
            ![r].phase = "hooked"]
    /\ UNCHANGED <<repairVars, propVars, isoVars, dispVars, streamVars, cliVars>>

\* the conversation context is built and handed, with the agent as it is
\* now, to the run
RunConversation(r) ==
    /\ advice[r].phase = "hooked"
    /\ advice' = [advice EXCEPT
            ![r].handed = IF advice[r].path = "enhanced"
                          THEN build_conversation_context(advice[r].message_history)
                          ELSE ml_history_context(advice[r].message_history),
            ![r].phase = "ran"]
    /\ UNCHANGED <<repairVars, propVars, isoVars, dispVars, streamVars, cliVars>>

AdviceNext ==
    \/ \E r \in Runs : LearningHookBefore(r)
    \/ \E r \in Runs : MLHookBefore(r)
    \/ \E r \in Runs : RunConversation(r)

SpecAdvice == AdviceInit /\ [][AdviceNext]_vars

(***************************************************************************)
(* C26. Advisory non-interference: two runs that differ only in what the   *)
(* advisory collaborator returns hand the same history to the model call   *)
(* and run the agent with the same configuration (instructions); the       *)
(* advice shows only in what is displayed.                                 *)
(***************************************************************************)
C26_AdvisoryNonInterference ==
    (\A r \in Runs : advice[r].phase = "ran") =>
        /\ advice[1].handed = advice[2].handed
        /\ advice[1].instructions = advice[2].instructions

(***************************************************************************)
(* C27. Wait-for-all: a dispatch that returns without a whole-dispatch     *)
(* cancellation returns when every execution it launched is in a terminal  *)
(* state, and the step in which one execution fails changes no sibling and *)
(* does not end the round.                                                 *)
(***************************************************************************)
C27_WaitForAll ==
    [][/\ dispatchReturn' = ReturnsTrue =>
            \A i \in 1..Len(tasks') : tasks'[i].state \in Terminal
       /\ \A i \in 1..Len(tasks) :
            (/\ Len(tasks') = Len(tasks)
             /\ tasks[i].state # "failed"
             /\ tasks'[i].state = "failed")
                => /\ \A j \in (1..Len(tasks)) \ {i} : tasks'[j] = tasks[j]
                   /\ dphase' = dphase
                   /\ dispatchReturn' = dispatchReturn]_vars

\* the second execution has failed; the first is running and has added a
\* message, and the dispatch has not returned
C27_Witness ==
    /\ dphase = "launched"
    /\ dispatchReturn = NoReturn
    /\ Len(tasks) = 2
    /\ tasks[2].state = "failed" /\ tasks[2].error = "ExecutionFailure"
    /\ tasks[1].state = "running"
    /\ ProducedBy(instances[tasks[1].key].message_history, 1) # {}

C29_SingleWriter ==
    [][/\ (dphase = "launched" /\ dphase' = "launched") =>
            \A k \in DOMAIN instances \cap DOMAIN instances' :
                instances'[k].message_history # instances[k].message_history =>
                    \E i \in 1..Len(tasks) :
                        /\ tasks[i].state = "running"
                        /\ tasks[i].key = k
                        /\ \A j \in 1..Len(tasks) :
                                (j # i /\ tasks[j].started) => tasks[j].key # k
                        /\ \E msg \in RunMessages(instances[k].message_history, WorkerTags[i]) :
                                instances'[k].message_history =
                                    Append(instances[k].message_history, msg)
       /\ \A k \in DOMAIN instances : \A i \in 1..Len(tasks) :
            (tasks[i].started /\ ProducedBy(instances[k].message_history, i) # {}) =>
                k = tasks[i].key]_vars

\* two executions of the same agent run side by side and each has written
\* to its own instance
C29_Witness ==
    /\ dphase = "launched"
    /\ Len(tasks) = 2
    /\ configs[1].agent_name = configs[2].agent_name
    /\ \A i \in 1..2 :
        /\ tasks[i].state = "running"
        /\ ProducedBy(instances[tasks[i].key].message_history, i) # {}

(***************************************************************************)
(* The model binding of the executions of one round                       *)
(* (run_agent_instance up to "await Runner.run", with the whole of         *)
(* _update_agent_models_recursively run in that one step: it has no await) *)
(***************************************************************************)
\* the outcome of _update_agent_models_recursively(agent x, new_model,
\* visited): st holds the agents and the visited set as the call finds them
RECURSIVE update_agent_models_recursively(_, _, _)
RECURSIVE update_over_handoffs(_, _, _, _)
update_agent_models_recursively(st, x, new_model) ==
    IF st.agents[x].name \in st.visited THEN st
    ELSE update_over_handoffs(
            [agents |-> [st.agents EXCEPT ![x] = update_model(@, new_model)],
             visited |-> st.visited \cup {st.agents[x].name}],
            x, 1, new_model)

\* "for handoff_item in agent.handoffs" of the call for agent x, from idx on
update_over_handoffs(st, x, idx, new_model) ==
    IF idx > Len(handoffs[x]) THEN st
    ELSE update_over_handoffs(
            IF handoff_target(handoffs[x][idx]) = None THEN st
            ELSE update_agent_models_recursively(st, handoff_target(handoffs[x][idx]),
                                                 new_model),
            x, idx + 1, new_model)

\* "model_to_use = config.model or os.getenv('CAI_MODEL', 'alias0')", with
\* CAI_MODEL left unset
model_to_use(cfg) == IF cfg.model # None THEN cfg.model ELSE DefaultModel

\* config.model of the configurations of a round
ConfigModels == {None, "modelX", "modelY"}

\* the instance of the configuration at each position
WorkerInst == <<"A", "B">>

\* agent.handoffs of a worker instance: nothing, the delegate C directly or
\* behind a handle, or the other worker
WorkerHandoffs(other) ==
    {<<>>, <<DirectRef("C")>>, <<Handoff(<<"C">>)>>, <<DirectRef(other)>>}

\* the instances a worker's delegation leads to, itself included
ReachableFrom(x) ==
    LET r1 == {x} \cup Delegates(x)
    IN  r1 \cup UNION {Delegates(y) : y \in r1}

BindingInit ==
    /\ history = <<>>
    /\ lastOp = "init"
    /\ repairRuns = 0
    /\ \E m \in [1..2 -> ConfigModels] :
        configs = [i \in 1..2 |-> [Config(i, None) EXCEPT !.model = m[i]]]
    /\ isolation = <<>>
    /\ setupInfo = <<>>
    /\ isoOp = "off"
    /\ rounds = 0
    /\ instances = <<>>
    /\ tasks = [i \in 1..2 |-> PendingTask]
    /\ dphase = "binding"
    /\ validResults = <<>>
    /\ dispatchReturn = [kind |-> "none", value |-> "none"]
    /\ runSteps = 0
    /\ obtained = {}
    /\ tool_calls_seen = {}
    /\ tool_results_seen = {}
    /\ sphase = "off"
    /\ sevent = [name |-> "none", id |-> NoId]
    /\ sevents = 0
    /\ cli = <<>>
    /\ learn = <<>>
    /\ advice = <<>>
    /\ \E ha \in WorkerHandoffs("B"), hb \in WorkerHandoffs("A"),
          hc \in {<<>>, <<DirectRef("A")>>} :
        handoffs = [x \in Inst |-> IF x = "A" THEN ha ELSE IF x = "B" THEN hb ELSE hc]
    /\ agents = [x \in Inst |->
                    Agent(IF x = "A" THEN "a" ELSE IF x = "B" THEN "b" ELSE "c")]
    /\ visited = {}
    /\ stack = <<>>
    /\ visits = [x \in Inst |-> 0]
    /\ psteps = 0
    /\ pstatus = "off"

\* the first step of the execution of configs[i]: the model is propagated
\* from its instance with a fresh visited set, then Runner.run is awaited
BindAndRun(i) ==
    /\ dphase = "binding"
    /\ tasks[i].state = "pending"
    /\ agents' = update_agent_models_recursively(
                    [agents |-> agents, visited |-> {}], WorkerInst[i],
                    model_to_use(configs[i])).agents
    /\ tasks' = [tasks EXCEPT ![i].state = "running", ![i].started = TRUE]
    /\ UNCHANGED <<handoffs, visited, stack, visits, psteps, pstatus>>
    /\ UNCHANGED <<instances, dphase, validResults, dispatchReturn, runSteps, obtained>>
    /\ UNCHANGED <<repairVars, isoVars, streamVars, adviceVars, cliVars>>

\* Runner.run returns and the execution ends
RunEnds(i) ==
    /\ dphase = "binding"
    /\ tasks[i].state = "running"
    /\ tasks' = [tasks EXCEPT ![i].state = "completed"]
    /\ UNCHANGED <<repairVars, propVars, isoVars, streamVars, adviceVars, cliVars>>
    /\ UNCHANGED <<instances, dphase, validResults, dispatchReturn, runSteps, obtained>>

BindingNext == \E i \in 1..2 : BindAndRun(i) \/ RunEnds(i)

SpecBinding == BindingInit /\ [][BindingNext]_vars

(***************************************************************************)
(* C30. Per-worker model binding: while the execution of a configuration   *)
(* runs, its instance and every instance its delegation leads to are bound *)
(* to the model of that configuration (config.model, else the default).    *)
(***************************************************************************)
C30_PerWorkerModel ==
    dphase = "binding" =>
        \A i \in 1..Len(tasks) :
            tasks[i].state = "running" =>
                \A x \in ReachableFrom(WorkerInst[i]) :
                    agents[x].model = model_to_use(configs[i])

(***************************************************************************)
(* CLIState (state_manager.py) and the interactive loop of                 *)
(* run_cai_cli_refactored (main.py)                                        *)
(***************************************************************************)
MaxTurnCount == 3               \* conversation turns of one session
Inf == 1000000                  \* float("inf")

\* values of the environment variable CAI_MAX_TURNS
EnvValues == {"inf", "1", "2", "2.0", "3"}

\* float(current_max_turns)
to_float(s) ==
    IF s = "inf" THEN Inf ELSE IF s = "1" THEN 1 ELSE IF s = "3" THEN 3 ELSE 2

\* str(self.prev_max_turns), the str of a float
float_str(x) ==
    IF x = Inf THEN "inf" ELSE IF x = 1 THEN "1.0" ELSE IF x = 2 THEN "2.0" ELSE "3.0"

\* CLIState() after reset_for_new_session
FreshState ==
    [turn_count |-> 0, max_turns |-> Inf, prev_max_turns |-> Inf,
     turn_limit_reached |-> FALSE]

\* update_from_environment, the part on max turns
update_from_environment(st, env) ==
    IF env # float_str(st.prev_max_turns)
    THEN [st EXCEPT !.max_turns = to_float(env),
                    !.prev_max_turns = to_float(env),
                    !.turn_limit_reached =
                        IF @ /\ st.turn_count < to_float(env) THEN FALSE ELSE @]
    ELSE st

\* check_turn_limits: the state it leaves and what it returns
check_turn_limits(st) ==
    IF st.turn_count >= st.max_turns /\ st.max_turns # Inf
    THEN [state |-> [st EXCEPT !.turn_limit_reached = TRUE], result |-> TRUE]
    ELSE [state |-> st, result |-> FALSE]

keep_turn(st) == st

increment_turn(st) == [st EXCEPT !.turn_count = @ + 1]

reset_for_new_session(st) == [st EXCEPT !.turn_count = 0, !.turn_limit_reached = FALSE]

\* the loop up to its check: "update_state_from_env()", then
\* "check_and_handle_limits()"
LoopHead == check_turn_limits(update_from_environment(cli.state, cli.env))

\* user input that is a command: "/config" setting CAI_MAX_TURNS, or another
Commands == {[name |-> "/config", value |-> v] : v \in EnvValues}
                \cup {[name |-> "/help", value |-> "none"]}

LoopInit ==
    /\ history = <<>>
    /\ lastOp = "init"
    /\ repairRuns = 0
    /\ handoffs = <<>>
    /\ agents = <<>>
    /\ visited = {}
    /\ stack = <<>>
    /\ visits = <<>>
    /\ psteps = 0
    /\ pstatus = "off"
    /\ configs = <<>>
    /\ isolation = <<>>
    /\ setupInfo = <<>>
    /\ isoOp = "off"
    /\ rounds = 0
    /\ instances = <<>>
    /\ tasks = <<>>
    /\ dphase = "off"
    /\ validResults = <<>>
    /\ dispatchReturn = [kind |-> "none", value |-> "none"]
    /\ runSteps = 0
    /\ obtained = {}
    /\ tool_calls_seen = {}
    /\ tool_results_seen = {}
    /\ sphase = "off"
    /\ sevent = [name |-> "none", id |-> NoId]
    /\ sevents = 0
    /\ advice = <<>>
    /\ learn = <<>>
    /\ \E e \in EnvValues :
        cli = [state |-> FreshState, env |-> e, pc |-> "loop", last |-> "none",
               since_reset |-> 0]

\* "if state_manager.check_and_handle_limits(): display_turn_limit_warning();
\* continue": the iteration ends before any input is read
TurnLimitWarning ==
    /\ cli # <<>> /\ cli.pc = "loop"
    /\ LoopHead.result
    /\ cli' = [cli EXCEPT !.state = LoopHead.state, !.last = "warning"]
    /\ UNCHANGED <<repairVars, propVars, isoVars, dispVars, streamVars, adviceVars, learn>>

\* an iteration that reads a command: process_command handles it, "continue"
ProcessCommand(cmd) ==
    /\ cli # <<>> /\ cli.pc = "loop"
    /\ ~LoopHead.result
    /\ cli' = [cli EXCEPT !.state = LoopHead.state,
                          !.env = IF cmd.name = "/config" THEN cmd.value ELSE @,
                          !.last = "command"]
    /\ UNCHANGED <<repairVars, propVars, isoVars, dispVars, streamVars, adviceVars, learn>>

\* an iteration that reads conversation input: the parallel dispatch takes
\* it ("continue"), or run_agent_conversation returns and the turn is
\* counted, or an exception is handled by handle_agent_execution_error
ConversationInput(outcome) ==
    /\ cli # <<>> /\ cli.pc = "loop"
    /\ ~LoopHead.result
    /\ LoopHead.state.turn_count < MaxTurnCount
    /\ cli' = [cli EXCEPT !.state = IF outcome = "turn" THEN increment_turn(LoopHead.state)
                                    ELSE LoopHead.state,
                          !.since_reset = IF outcome = "turn" THEN @ + 1 ELSE @,
                          !.last = outcome]
    /\ UNCHANGED <<repairVars, propVars, isoVars, dispVars, streamVars, adviceVars, learn>>

\* KeyboardInterrupt while the input is processed: "break"
LoopInterrupted ==
    /\ cli # <<>> /\ cli.pc = "loop"
    /\ ~LoopHead.result
    /\ cli' = [cli EXCEPT !.state = LoopHead.state, !.pc = "ended", !.last = "interrupt"]
    /\ UNCHANGED <<repairVars, propVars, isoVars, dispVars, streamVars, adviceVars, learn>>

ReadsCommand == \E cmd \in Commands : ProcessCommand(cmd)

LoopNext ==
    \/ TurnLimitWarning
    \/ ReadsCommand
    \/ \E outcome \in {"turn", "dispatched", "error"} : ConversationInput(outcome)
    \/ LoopInterrupted

SpecLoop == LoopInit /\ [][LoopNext]_vars

(***************************************************************************)
(* C33. Once the turn limit is reached (max_turns finite and turn_count >= *)
(* max_turns) the loop still reads and processes commands: an iteration    *)
(* that takes a command, such as the one raising CAI_MAX_TURNS, can be     *)
(* taken.                                                                  *)
(***************************************************************************)
C33_CommandsStillRead ==
    (/\ cli.pc = "loop"
     /\ cli.state.max_turns # Inf
     /\ cli.state.turn_count >= cli.state.max_turns
     /\ cli.state.turn_limit_reached) => ENABLED ReadsCommand

(***************************************************************************)
(* The operations of StateManager, called in any order on a fresh one      *)
(***************************************************************************)
StateInit ==
    /\ history = <<>>
    /\ lastOp = "init"
    /\ repairRuns = 0
    /\ handoffs = <<>>
    /\ agents = <<>>
    /\ visited = {}
    /\ stack = <<>>
    /\ visits = <<>>
    /\ psteps = 0
    /\ pstatus = "off"
    /\ configs = <<>>
    /\ isolation = <<>>
    /\ setupInfo = <<>>
    /\ isoOp = "off"
    /\ rounds = 0
    /\ instances = <<>>
    /\ tasks = <<>>
    /\ dphase = "off"
    /\ validResults = <<>>
    /\ dispatchReturn = [kind |-> "none", value |-> "none"]
    /\ runSteps = 0
    /\ obtained = {}
    /\ tool_calls_seen = {}
    /\ tool_results_seen = {}
    /\ sphase = "off"
    /\ sevent = [name |-> "none", id |-> NoId]
    /\ sevents = 0
    /\ advice = <<>>
    /\ learn = <<>>
    /\ \E e \in EnvValues :
        cli = [state |-> FreshState, env |-> e, pc |-> "api", last |-> "none",
               since_reset |-> 0, was_reset |-> FALSE]

\* StateManager.increment_turn
IncrementTurn ==
    /\ cli # <<>> /\ cli.pc = "api"
    /\ cli.state.turn_count < MaxTurnCount
    /\ cli' = [cli EXCEPT !.state = increment_turn(@), !.since_reset = @ + 1,
                          !.last = "increment"]
    /\ UNCHANGED <<repairVars, propVars, isoVars, dispVars, streamVars, adviceVars, learn>>

\* StateManager.reset_session_state
ResetSessionState ==
    /\ cli # <<>> /\ cli.pc = "api"
    /\ cli' = [cli EXCEPT !.state = reset_for_new_session(@), !.since_reset = 0,
                          !.was_reset = TRUE, !.last = "reset"]
    /\ UNCHANGED <<repairVars, propVars, isoVars, dispVars, streamVars, adviceVars, learn>>

\* StateManager.update_state_from_env
UpdateStateFromEnv ==
    /\ cli # <<>> /\ cli.pc = "api"
    /\ cli' = [cli EXCEPT !.state = update_from_environment(@, cli.env), !.last = "update"]
    /\ UNCHANGED <<repairVars, propVars, isoVars, dispVars, streamVars, adviceVars, learn>>

\* StateManager.check_and_handle_limits
CheckAndHandleLimits ==
    /\ cli # <<>> /\ cli.pc = "api"
    /\ cli' = [cli EXCEPT !.state = check_turn_limits(@).state, !.last = "check"]
    /\ UNCHANGED <<repairVars, propVars, isoVars, dispVars, streamVars, adviceVars, learn>>

\* CAI_MAX_TURNS is set between two operations
SetMaxTurnsEnv(v) ==
    /\ cli # <<>> /\ cli.pc = "api"
    /\ cli' = [cli EXCEPT !.env = v, !.last = "setenv"]
    /\ UNCHANGED <<repairVars, propVars, isoVars, dispVars, streamVars, adviceVars, learn>>

StateNext ==
    \/ IncrementTurn
    \/ ResetSessionState
    \/ UpdateStateFromEnv
    \/ CheckAndHandleLimits
    \/ \E v \in EnvValues : SetMaxTurnsEnv(v)

SpecState == StateInit /\ [][StateNext]_vars

(***************************************************************************)
(* C34. turn_count is the number of increment_turn calls made since the    *)
(* most recent reset_session_state, or since the StateManager was created: *)
(* 0 when fresh, one more after each increment, 0 after a reset.           *)
(***************************************************************************)
C34_TurnCount ==
    /\ cli.state.turn_count = cli.since_reset
    /\ cli.last = "none" => cli.state.turn_count = 0
    /\ cli.last = "reset" => cli.state.turn_count = 0

\* two increments after a reset
C34_Witness ==
    /\ cli.pc = "api"
    /\ cli.was_reset
    /\ cli.last = "increment"
    /\ cli.state.turn_count = 2

(***************************************************************************)
(* EnhancedAgentRunner.run_agent_conversation and the learning hook after  *)
(* the run (learning_hook_after_agent_run, record_agent_interaction)       *)
(***************************************************************************)
MaxConversations == 2           \* calls of run_agent_conversation

\* how the execution of one call ends: Runner.run returns a result, Runner.run
\* raises in the single-agent path, the parallel instances are run (each
\* failure caught inside its instance), or _run_parallel_agents itself raises
RunOutcomes(parallel_count) ==
    IF parallel_count > 1 THEN {"parallel_done", "parallel_raised"}
    ELSE {"result", "single_raised"}

\* what _run_single_agent_with_tracking / the parallel branch leave in
\* "result": the exception of the single-agent path is logged and None returned
result_of(outcome) ==
    IF outcome = "result" THEN "RunResult"
    ELSE IF outcome = "parallel_done" THEN "Parallel agents execution completed"
    ELSE None

\* the call reaches "except Exception" of run_agent_conversation
reaches_except(outcome) == outcome = "parallel_raised"

\* record_agent_interaction: "if not self.learning_enabled or not
\* self.current_session_id: return", else one record for the engine
record_agent_interaction(l, response) ==
    IF ~l.manager_enabled \/ ~l.session THEN l.records
    ELSE Append(l.records, response)

\* learning_hook_after_agent_run
learning_hook_after_agent_run(l, response) ==
    IF ~l.manager_enabled THEN l.records ELSE record_agent_interaction(l, response)

\* "if self.learning_enabled and result"
hook_if_result(l, outcome) == l.runner_enabled /\ result_of(outcome) # None

\* the records after the execution of a call has ended
records_after(l, outcome) ==
    IF reaches_except(outcome)
    THEN IF l.runner_enabled THEN learning_hook_after_agent_run(l, "Error") ELSE l.records
    ELSE IF hook_if_result(l, outcome)
         THEN learning_hook_after_agent_run(l, result_of(outcome))
         ELSE l.records

LearningInit ==
    /\ history = <<>>
    /\ lastOp = "init"
    /\ repairRuns = 0
    /\ handoffs = <<>>
    /\ agents = <<>>
    /\ visited = {}
    /\ stack = <<>>
    /\ visits = <<>>
    /\ psteps = 0
    /\ pstatus = "off"
    /\ configs = <<>>
    /\ isolation = <<>>
    /\ setupInfo = <<>>
    /\ isoOp = "off"
    /\ rounds = 0
    /\ instances = <<>>
    /\ tasks = <<>>
    /\ dphase = "off"
    /\ validResults = <<>>
    /\ dispatchReturn = [kind |-> "none", value |-> "none"]
    /\ runSteps = 0
    /\ obtained = {}
    /\ tool_calls_seen = {}
    /\ tool_results_seen = {}
    /\ sphase = "off"
    /\ sevent = [name |-> "none", id |-> NoId]
    /\ sevents = 0
    /\ advice = <<>>
    /\ cli = <<>>
    /\ \E re, me, se \in BOOLEAN :
        learn = [runner_enabled |-> re, manager_enabled |-> me, session |-> se,
                 pc |-> "idle", parallel_count |-> 1, calls |-> 0, ended |-> <<>>,
                 records |-> <<>>]

\* run_agent_conversation is called; the execution is awaited
ConversationCalled(parallel_count) ==
    /\ learn # <<>> /\ learn.pc = "idle"
    /\ learn.calls < MaxConversations
    /\ learn' = [learn EXCEPT !.pc = "running", !.parallel_count = parallel_count,
                              !.calls = @ + 1]
    /\ UNCHANGED <<repairVars, propVars, isoVars, dispVars, streamVars, adviceVars, cli>>

\* the execution ends and run_agent_conversation runs to its return or raise
ConversationEnds(outcome) ==
    /\ learn # <<>> /\ learn.pc = "running"
    /\ outcome \in RunOutcomes(learn.parallel_count)
    /\ learn' = [learn EXCEPT !.pc = "idle", !.ended = Append(@, outcome),
                              !.records = records_after(learn, outcome)]
    /\ UNCHANGED <<repairVars, propVars, isoVars, dispVars, streamVars, adviceVars, cli>>

LearningNext ==
    \/ \E parallel_count \in 1..2 : ConversationCalled(parallel_count)
    \/ \E outcome \in {"result", "single_raised", "parallel_done", "parallel_raised"} :
            ConversationEnds(outcome)

SpecLearning == LearningInit /\ [][LearningNext]_vars

(***************************************************************************)
(* C35. With learning enabled and a session active, every call of          *)
(* run_agent_conversation has handed exactly one record to the learning    *)
(* collaborator when its execution has ended, whether the execution        *)
(* succeeded or failed.                                                    *)
(***************************************************************************)
C35_OneRecordPerRun ==
    (learn.runner_enabled /\ learn.manager_enabled /\ learn.session) =>
        Len(learn.records) = Len(learn.ended)

(***************************************************************************)
(* C36. Within one dispatch, when the explicit ids of the configurations   *)
(* differ from each other, configurations at different positions have      *)
(* different isolation-store keys, also where an id is derived from the    *)
(* position, and their executions run on different registry instances.     *)
(***************************************************************************)
ExplicitIdsDistinct(cfgs) ==
    \A i, j \in 1..Len(cfgs) :
        (i # j /\ cfgs[i].id # None /\ cfgs[j].id # None) => cfgs[i].id # cfgs[j].id

C36_DistinctPerPosition ==
    (dphase \in {"launched", "gathered"} /\ ExplicitIdsDistinct(configs)) =>
        \A i, j \in 1..Len(configs) :
            i # j =>
                /\ agent_ids(configs)[i] # agent_ids(configs)[j]
                /\ (tasks[i].started /\ tasks[j].started) =>
                        /\ tasks[i].key # tasks[j].key
                        /\ tasks[i].uid # tasks[j].uid
                        /\ tasks[i].agent_id # tasks[j].agent_id

(***************************************************************************)
(* C37. The propagation changes nothing outside the reachable set: an      *)
(* instance that is not reachable from the root keeps its model, its       *)
(* client and its tool-call and tool-output buffers, while the propagation *)
(* runs and when it has ended.                                             *)
(***************************************************************************)
C37_PropagateFrame ==
    pstatus \in {"running", "done"} =>
        \A x \in Inst \ Reachable :
            /\ agents[x] = Agent(agents[x].name)
            /\ visits[x] = 0

\* the propagation has ended, it updated an instance besides the root, and
\* an instance outside the reachable set still has its cached state
C37_Witness ==
    /\ pstatus = "done"
    /\ \E y \in Reachable \ {Root} : agents[y].model = NewModel
    /\ \E x \in Inst \ Reachable :
        /\ agents[x].model = DefaultModel
        /\ agents[x].client = "cached"
        /\ \E z \in Inst : \E i \in 1..Len(handoffs[z]) : x \in Range(handoffs[z][i].cells)

(***************************************************************************)
(* The copies of _update_agent_models_recursively in AgentRunner           *)
(* (agent_runner.py) and in CLIState (state_manager.py), as operators on   *)
(* the agents and the visited set                                          *)
(***************************************************************************)
RECURSIVE runner_update_agent_models_recursively(_, _, _)
RECURSIVE runner_update_over_handoffs(_, _, _, _)
runner_update_agent_models_recursively(st, x, new_model) ==
    IF st.agents[x].name \in st.visited THEN st
    ELSE runner_update_over_handoffs(
            [agents |-> [st.agents EXCEPT ![x] = update_model(@, new_model)],
             visited |-> st.visited \cup {st.agents[x].name}],
            x, 1, new_model)

runner_update_over_handoffs(st, x, idx, new_model) ==
    IF idx > Len(handoffs[x]) THEN st
    ELSE runner_update_over_handoffs(
            IF handoff_target(handoffs[x][idx]) = None THEN st
            ELSE runner_update_agent_models_recursively(
                    st, handoff_target(handoffs[x][idx]), new_model),
            x, idx + 1, new_model)

\* "hasattr(agent, 'name')": every agent object has a name
has_name(a) == "name" \in DOMAIN a

\* CLIState: the update of the agent's model object
state_update_model_only(a, new_model) == [a EXCEPT !.model = new_model]

state_update_model(a, new_model) ==
    [a EXCEPT !.model = new_model, !.agent_name = a.name, !.client = None,
              !.recent_tool_calls = {}, !.tool_outputs = {}]

RECURSIVE state_update_agent_models_recursively(_, _, _)
RECURSIVE state_update_over_handoffs(_, _, _, _)
state_update_agent_models_recursively(st, x, new_model) ==
    IF has_name(st.agents[x]) /\ st.agents[x].name \in st.visited THEN st
    ELSE state_update_over_handoffs(
            [agents |-> [st.agents EXCEPT ![x] = state_update_model(@, new_model)],
             visited |-> IF has_name(st.agents[x])
                         THEN st.visited \cup {st.agents[x].name} ELSE st.visited],
            x, 1, new_model)

state_update_over_handoffs(st, x, idx, new_model) ==
    IF idx > Len(handoffs[x]) THEN st
    ELSE state_update_over_handoffs(
            IF handoff_target(handoffs[x][idx]) = None THEN st
            ELSE state_update_agent_models_recursively(
                    st, handoff_target(handoffs[x][idx]), new_model),
            x, idx + 1, new_model)

\* the agents as they stand before a propagation, with an empty visited set
BeforePropagation ==
    [agents |-> [x \in Inst |-> Agent(agents[x].name)], visited |-> {}]

MaxParallel == 3                \* parallel_count

\* how run_agent_instance ends: Runner.run returned a result with a final
\* output, a result without one, or an exception was caught (result None)
InstanceOutcomes == {"output", "no_output", "raised"}

\* the pair (instance_number, result) the instance returns
instance_result(i, outcome) ==
    [idx |-> i,
     res |-> IF outcome = "raised" THEN None ELSE "RunResult",
     final_output |-> IF outcome = "output" THEN WorkerTags[i] ELSE None]

\* the results in the order in which the instances ended
as_completed_results(tsk) ==
    [k \in 1..Len(tsk) |->
        tsk[CHOOSE i \in 1..Len(tsk) : tsk[i].finished = k].result]

\* "results = await asyncio.gather(*tasks, return_exceptions=True)": the
\* results in the order of the tasks
gathered_results(tsk) == [i \in 1..Len(tsk) |-> tsk[i].result]

\* "if res is not None and not isinstance(res, Exception)"
runner_valid_results(results) == SelectSeq(results, LAMBDA r : r.res # None)

\* "for idx, result in results": a result with a final output is added to
\* the main history as an assistant message
RECURSIVE append_final_outputs(_, _)
append_final_outputs(h, results) ==
    IF results = <<>> THEN h
    ELSE append_final_outputs(
            IF Head(results).final_output # None
            THEN add_to_message_history(h, WorkerMsg(Head(results).final_output)).history
            ELSE h,
            Tail(results))

MergeInit ==
    /\ lastOp = "init"
    /\ repairRuns = 0
    /\ handoffs = <<>>
    /\ agents = <<>>
    /\ visited = {}
    /\ stack = <<>>
    /\ visits = <<>>
    /\ psteps = 0
    /\ pstatus = "off"
    /\ configs = <<>>
    /\ isolation = <<>>
    /\ setupInfo = <<>>
    /\ isoOp = "off"
    /\ rounds = 0
    /\ instances = <<>>
    /\ dphase = "instances"
    /\ validResults = <<>>
    /\ dispatchReturn = [kind |-> "none", value |-> "none"]
    /\ runSteps = 0
    /\ obtained = {}
    /\ tool_calls_seen = {}
    /\ tool_results_seen = {}
    /\ sphase = "off"
    /\ sevent = [name |-> "none", id |-> NoId]
    /\ sevents = 0
    /\ advice = <<>>
    /\ cli = <<>>
    /\ learn = <<>>
    /\ history = <<UserMsg>>
    /\ \E parallel_count \in 2..MaxParallel :
        tasks = [i \in 1..parallel_count |->
                    [state |-> "running", finished |-> 0, result |-> None]]

\* run_agent_instance of instance i returns its pair
InstanceEnds(i, outcome) ==
    /\ dphase = "instances"
    /\ i \in 1..Len(tasks)
    /\ tasks[i].state = "running"
    /\ tasks' = [tasks EXCEPT ![i] =
                    [state |-> "ended",
                     finished |-> 1 + Cardinality({j \in 1..Len(tasks) : tasks[j].state = "ended"}),
                     result |-> instance_result(i, outcome)]]
    /\ UNCHANGED <<instances, dphase, validResults, dispatchReturn, runSteps, obtained>>
    /\ UNCHANGED <<repairVars, propVars, isoVars, streamVars, adviceVars, cliVars>>

\* the gather returns: process_parallel_responses filters the results and
\* the final outputs are added to the history of the main agent
ProcessParallelResponses ==
    /\ dphase = "instances"
    /\ \A i \in 1..Len(tasks) : tasks[i].state = "ended"
    /\ validResults' = runner_valid_results(gathered_results(tasks))
    /\ history' = append_final_outputs(history, validResults')
    /\ dphase' = "merged"
    /\ UNCHANGED <<lastOp, repairRuns>>
    /\ UNCHANGED <<instances, tasks, dispatchReturn, runSteps, obtained>>
    /\ UNCHANGED <<propVars, isoVars, streamVars, adviceVars, cliVars>>

MergeNext ==
    \/ \E i \in 1..MaxParallel, outcome \in InstanceOutcomes : InstanceEnds(i, outcome)
    \/ ProcessParallelResponses

SpecMerge == MergeInit /\ [][MergeNext]_vars

(***************************************************************************)
(* C39. When the parallel instances have ended, the history of the main    *)
(* agent has grown by one assistant message per instance that returned a   *)
(* final output, in ascending order of the instance index whatever the     *)
(* order in which the instances ended; an instance that failed or gave no  *)
(* final output has added nothing.                                         *)
(***************************************************************************)
C39_IndexOrder ==
    dphase = "merged" =>
        LET added == SubSeq(history, 2, Len(history))
            WithOutput == {i \in 1..Len(tasks) : tasks[i].result.final_output # None}
        IN  /\ history[1] = UserMsg
            /\ Len(added) = Cardinality(WithOutput)
            /\ \A k \in 1..Len(added) :
                /\ added[k].role = "assistant"
                /\ \E i \in WithOutput : added[k].content = WorkerTags[i]
            /\ \A k, l \in 1..Len(added) :
                k < l =>
                    \A i, j \in WithOutput :
                        (added[k].content = WorkerTags[i] /\ added[l].content = WorkerTags[j])
                            => i < j

\* the second instance ended before the first, both with a final output, the
\* third failed: the history holds the output of the first, then the second
C39_Witness ==
    /\ dphase = "merged"
    /\ Len(tasks) = 3
    /\ tasks[2].finished < tasks[1].finished
    /\ tasks[3].result.res = None
    /\ history = <<UserMsg, WorkerMsg("w1"), WorkerMsg("w2")>>

(***************************************************************************)
(* C8. Broadcast transfer: when the re-entrancy guard does not apply, the  *)
(* setup under the broadcast policy leaves the history of every given id   *)
(* equal to the source history.                                            *)
(***************************************************************************)
C8_BroadcastTransfer ==
    (isoOp = "setup" /\ setupInfo.policy = "broadcast" /\ ~setupInfo.guard) =>
        \A i \in 1..Len(configs) :
            get_isolated_history(isolation, agent_ids(configs)[i]) = setupInfo.source

\* a second round that broadcasts [m1, m2] to two ids over a store that held
\* other entries before
C8_Witness ==
    /\ isoOp = "setup" /\ setupInfo.policy = "broadcast" /\ ~setupInfo.guard
    /\ rounds = 2
    /\ agent_ids(configs) = <<"P1", "P2">>
    /\ setupInfo.source = <<M1, M2>>
    /\ get_isolated_history(setupInfo.before, "P2") = <<WorkerMsg("w2")>>
    /\ get_isolated_history(isolation, "P2") = <<M1, M2>>

(***************************************************************************)
(* C9. Seed-first transfer: when the re-entrancy guard does not apply, the *)
(* setup under the seed-first policy leaves the history of the first id    *)
(* equal to the source history and the history of every other id empty,    *)
(* for every source history and every earlier content of the store.        *)
(***************************************************************************)
C9_SeedFirstTransfer ==
    (/\ isoOp = "setup" /\ setupInfo.policy = "seed-first" /\ ~setupInfo.guard
     /\ UniqueIds(agent_ids(configs))) =>
        /\ get_isolated_history(isolation, agent_ids(configs)[1]) = setupInfo.source
        /\ \A i \in 2..Len(configs) :
            get_isolated_history(isolation, agent_ids(configs)[i]) = <<>>

(***************************************************************************)
(* C10. Re-entrancy guard: a setup that finds parallel mode on and a       *)
(* non-empty isolated history under one of its ids leaves every entry of   *)
(* the store as it was.                                                    *)
(***************************************************************************)
C10_ReentrancyGuard ==
    (isoOp = "setup" /\ setupInfo.guard) =>
        isolation.histories = setupInfo.before.histories

\* a second round that finds P1 with a history and P2 empty, asked to
\* broadcast a different source
C10_Witness ==
    /\ isoOp = "setup" /\ setupInfo.guard
    /\ rounds = 2
    /\ agent_ids(configs) = <<"P1", "P2">>
    /\ get_isolated_history(setupInfo.before, "P1") # <<>>
    /\ get_isolated_history(setupInfo.before, "P2") = <<>>
    /\ setupInfo.source # get_isolated_history(setupInfo.before, "P1")
    /\ setupInfo.source # <<>>

====
